---- MODULE Spec2Model ----
(***************************************************************************)
(* Model of the U++ Animation scheduler (Animation/Animation.cpp with its  *)
(* header Animation/Animation.h): the process-wide Scheduler, the per-run  *)
(* State with its Step state machine, and the Animation handle with its    *)
(* staging / live / progress-cache compartments.                           *)
(*                                                                         *)
(* The program is single threaded.  Every public operation is one action;  *)
(* the user callbacks it invokes (on_start, on_update, tick, on_finish,    *)
(* on_cancel) run inside that action and may call back into the public     *)
(* operations, so operations are operators from a world record to a world  *)
(* record and a callback is a small script that is interpreted in place.   *)
(***************************************************************************)
EXTENDS Integers, Sequences, FiniteSets, TLC

VARIABLES
    anims,            \* Animation handles: staging_, last_spec_, live_, progress_cache_
    states,           \* heap of Animation::State objects
    active,           \* Scheduler::active, in insertion order
    sched,            \* Scheduler scalars: running, ticker, sweeping, fps, step_ms, manual_last_now
    owners,           \* the Ctrl objects that are still alive
    clock,            \* msecs()
    obs,              \* per run: how often each callback was invoked, and with what
    fault             \* "none", or the undefined behaviour the program ran into

vars == <<anims, states, active, sched, owners, clock, obs, fault>>

-----------------------------------------------------------------------------
(* Bounds of the model *)

MaxStates == 2        \* State objects that can be allocated at the same time
MaxClock == 800       \* msecs() stops advancing here
MaxCount == 2         \* callback counters saturate here

(* Program constants *)

DefaultDuration == 400   \* Staging::duration_ms
DefaultLoop == 1         \* Staging::loop_count
DefaultDelay == 0        \* Staging::delay_ms
DefaultFps == 60         \* Scheduler::fps
MinFps == 1
MaxFps == 240
INT_MAX == 2147483647

Handles == {"a", "b", "z"}
Ctrls == {"c1", "c2"}
OwnerOf(h) == IF h = "z" THEN "c2" ELSE "c1"     \* Animation::owner_
StateIds == 1..MaxStates
Null == 0                                        \* nullptr
ClockStart == 100
Dts == {100}                                     \* how far msecs() moves in one step

-----------------------------------------------------------------------------
(* Exact arithmetic for the doubles in [0,1] the program computes: a       *)
(* fraction <<n, d>> in lowest terms.                                      *)

RECURSIVE Gcd(_, _)
Gcd(x, y) == IF y = 0 THEN x ELSE Gcd(y, x % y)

Zero == <<0, 1>>
One == <<1, 1>>

Max(x, y) == IF x >= y THEN x ELSE y
Min(x, y) == IF x <= y THEN x ELSE y

\* clamp(double(n) / d, 0.0, 1.0) for d > 0
ClampFrac(n, d) ==
    IF n <= 0 THEN Zero
    ELSE IF n >= d THEN One
    ELSE LET g == Gcd(n, d) IN <<n \div g, d \div g>>

\* 1.0 - p
OneMinus(p) == IF p = Zero THEN One ELSE IF p = One THEN Zero ELSE <<p[2] - p[1], p[2]>>

FracLess(p, q) == p[1] * q[2] < q[1] * p[2]
FracLeq(p, q) == p[1] * q[2] <= q[1] * p[2]

\* ClampInt without the upper limit
ClampLow(x, lo, hi) == IF x < lo THEN lo ELSE x

\* clamp(f, 1, 240)
ClampInt(x, lo, hi) == IF x < lo THEN lo ELSE IF x > hi THEN hi ELSE x

-----------------------------------------------------------------------------
(* Easing.  An Easing::Fn is an opaque pure function; the value it returns *)
(* for an interior t is kept symbolic as the pair of the curve and t.  The *)
(* Bezier solver returns exactly 0 at t <= 0 and exactly 1 at t >= 1, and  *)
(* a null Fn makes Step pass t through.                                    *)

NoEasing == "null"
DefaultEasing == "InOutCubic"
Easings == {NoEasing, "InOutCubic", "OutQuad"}

Plain(t) == [fn |-> "id", t |-> t]

Solve(fn, t) ==
    IF t = Zero THEN Plain(Zero)
    ELSE IF t = One THEN Plain(One)
    ELSE [fn |-> fn, t |-> t]

\* spec.easing ? spec.easing(t) : t
Ease(fn, t) == IF fn = NoEasing THEN Plain(t) ELSE Solve(fn, t)

NoValue == [fn |-> "-", t |-> Zero]          \* "the callback was never invoked"

-----------------------------------------------------------------------------
(* Callbacks.  A callback is either unset (a null Function/Event) or a     *)
(* script: what the user code does when invoked.  A script performs its    *)
(* operation on its first invocation in a run only (the guard any          *)
(* re-entrant callback needs against recursing into itself).               *)

Unset == [act |-> "unset", tgt |-> "-", ret |-> TRUE]
Count == [act |-> "none", tgt |-> "-", ret |-> TRUE]      \* only observes
Veto == [act |-> "none", tgt |-> "-", ret |-> FALSE]      \* tick returning false
Call(act, h) == [act |-> act, tgt |-> h, ret |-> TRUE]

\* Animation::Staging, default member initialisers
DefaultStaging ==
    [duration_ms |-> DefaultDuration, loop_count |-> DefaultLoop,
     delay_ms |-> DefaultDelay, yoyo |-> FALSE, easing |-> DefaultEasing,
     tick |-> Unset, on_start |-> Unset, on_finish |-> Unset,
     on_cancel |-> Unset, on_update |-> Unset]

NoSpec == [none |-> TRUE]                     \* staging_ == nullptr / !have_last_spec_

\* Animation::State, default member initialisers.  A State id is a heap
\* address; alloc is the heap's view of it: "unalloc", "live" (after new) or
\* "freed" (after delete, until new hands the address out again)
FreshState ==
    [alloc |-> "unalloc", owner |-> "-", spec |-> DefaultStaging,
     start_ms |-> 0, elapsed_ms |-> 0, paused |-> FALSE, reverse |-> FALSE,
     cycles |-> 1, anim |-> "-", dying |-> FALSE]

\* what is left of a State after delete: nothing that may be read
FreedState == [FreshState EXCEPT !.alloc = "freed"]

NoObs ==
    [on_start |-> 0, on_update |-> 0, tick |-> 0, on_finish |-> 0, on_cancel |-> 0,
     tick_val |-> NoValue, update_val |-> NoValue,
     active_ms |-> 0, leg_ms |-> 0, fwd_legs |-> 0, rev_legs |-> 0]

\* obs[s] is what an observer of run s has seen: the number of invocations of
\* each callback, the value last passed to tick and to on_update, and, kept by
\* a stopwatch of its own that runs only while the run is not paused, the
\* unpaused time since Play (active_ms) and since the current leg began
\* (leg_ms), and the number of forward and of reverse legs that ran to their end

\* Animation, as the constructor leaves it: a primed staging, nothing live
FreshAnim ==
    [exists |-> TRUE, staging |-> DefaultStaging, last_spec |-> NoSpec,
     live |-> Null, progress_cache |-> Zero]

\* Scheduler, default member initialisers.  timer_id is kept relative: a
\* callback queued on the TimeCallback carries either the current timer_id
\* ("valid") or an older one ("stale"); ticker is the set of the callbacks
\* that are queued (TimeCallback::Set queues one more, Kill drops them all);
\* in_tick is the id the running TickTimer was called with
FreshSched ==
    [running |-> FALSE, ticker |-> {}, in_tick |-> "none", sweeping |-> FALSE,
     fps |-> DefaultFps, step_ms |-> 1000 \div DefaultFps, manual_last_now |-> 0]

-----------------------------------------------------------------------------
(* The world: the program state an operation reads and writes, with the    *)
(* transient results of the call in progress (ret: the value returned,     *)
(* exc: an exception is propagating, oob: the call left the model bounds). *)

World ==
    [anims |-> anims, states |-> states, active |-> active, sched |-> sched,
     owners |-> owners, clock |-> clock, obs |-> obs, fault |-> fault,
     ret |-> TRUE, exc |-> FALSE, oob |-> FALSE]

Halted(W) == W.fault # "none" \/ W.exc \/ W.oob

Fault(W, f) == IF W.fault = "none" THEN [W EXCEPT !.fault = f] ELSE W

Ret(W, b) == [W EXCEPT !.ret = b]

Bump(n) == Min(n + 1, MaxCount)

\* sequencing of two parts of an operation: the rest runs in the world the
\* first part left, unless that part ran into a fault or threw
Then(W, Rest(_)) == IF Halted(W) THEN W ELSE Rest(W)

-----------------------------------------------------------------------------
(* Animation: progress query and the scheduler's hooks *)

\* A Ptr<Ctrl> reads as null once the Ctrl is destroyed
OwnerGone(W, s) == W.states[s].owner \notin W.owners

\* Progress giving the direction-adjusted value: 1 - p on a reverse leg
ProgressDirected(W, h) ==
    LET s == W.anims[h].live IN
    IF s = Null THEN W.anims[h].progress_cache
    ELSE LET st == W.states[s]
             run == st.elapsed_ms + (IF st.paused THEN 0 ELSE W.clock - st.start_ms)
             p == ClampFrac(Max(0, run - st.spec.delay_ms), Max(1, st.spec.duration_ms))
         IN  IF st.reverse THEN OneMinus(p) ELSE p

\* Progress reading the wall clock also while the run is paused
ProgressWall(W, h) ==
    LET s == W.anims[h].live IN
    IF s = Null THEN W.anims[h].progress_cache
    ELSE LET st == W.states[s]
             run == st.elapsed_ms + (W.clock - st.start_ms)
         IN  ClampFrac(Max(0, run - st.spec.delay_ms), Max(1, st.spec.duration_ms))

\* Progress dividing without the clamp to 1.0
ProgressOpen(W, h) ==
    LET s == W.anims[h].live IN
    IF s = Null THEN W.anims[h].progress_cache
    ELSE LET st == W.states[s]
             run == st.elapsed_ms + (IF st.paused THEN 0 ELSE W.clock - st.start_ms)
             run2 == Max(0, run - st.spec.delay_ms)
             dur == Max(1, st.spec.duration_ms)
         IN  IF run2 <= 0 THEN Zero ELSE <<run2 \div Gcd(run2, dur), dur \div Gcd(run2, dur)>>

\* Animation::Progress
Progress(W, h) ==
    LET s == W.anims[h].live IN
    IF s = Null THEN W.anims[h].progress_cache
    ELSE LET st == W.states[s]
             run == st.elapsed_ms + (IF st.paused THEN 0 ELSE W.clock - st.start_ms)
             run2 == Max(0, run - st.spec.delay_ms)
         IN  ClampFrac(run2, Max(1, st.spec.duration_ms))

\* Animation::_OnStateRemovedFinish.  The scheduler reaches the handle through
\* the raw back-pointer State::anim: a handle that was destroyed is written
\* to all the same
OnStateRemovedFinish(W, h) ==
    IF ~W.anims[h].exists THEN Fault(W, "write_to_destroyed_handle")
    ELSE [W EXCEPT !.anims[h].progress_cache = One, !.anims[h].live = Null]

\* Animation::_OnStateRemovedCancel
OnStateRemovedCancel(W, h, p) ==
    IF ~W.anims[h].exists THEN Fault(W, "write_to_destroyed_handle")
    ELSE [W EXCEPT !.anims[h].progress_cache = p, !.anims[h].live = Null]

-----------------------------------------------------------------------------
(* Scheduler *)

\* ++timer_id: whatever carried the old id is stale now
BumpTimerId(W) ==
    [W EXCEPT !.sched.ticker = IF "valid" \in @ THEN (@ \ {"valid"}) \cup {"stale"} ELSE @,
              !.sched.in_tick = IF @ = "valid" THEN "stale" ELSE @]

\* Scheduler::Start
SchedStart(W) ==
    IF W.sched.running THEN W
    ELSE LET W1 == BumpTimerId([W EXCEPT !.sched.running = TRUE])
         IN  [W1 EXCEPT !.sched.ticker = @ \cup {"valid"}]

\* Scheduler::Stop
SchedStop(W) ==
    IF ~W.sched.running THEN W
    ELSE LET W1 == BumpTimerId([W EXCEPT !.sched.running = FALSE])
         IN  [W1 EXCEPT !.sched.ticker = {}]

\* a state the timer has to advance: s && !s->paused && !s->dying
NeedsTick(W, s) == s # Null /\ ~W.states[s].paused /\ ~W.states[s].dying

\* Scheduler::MaybeStopIfAllPaused
MaybeStopIfAllPaused(W) ==
    IF \E i \in 1..Len(W.active) : NeedsTick(W, W.active[i]) THEN W ELSE SchedStop(W)

\* Scheduler::EnsureRunningIfAnyUnpaused
EnsureRunningIfAnyUnpaused(W) ==
    IF \E i \in 1..Len(W.active) : NeedsTick(W, W.active[i]) THEN SchedStart(W) ELSE W

\* Scheduler::SetFPSInternal
SetFPSInternal(W, f) ==
    LET fps == ClampInt(f, MinFps, MaxFps)
        W1 == [W EXCEPT !.sched.fps = fps, !.sched.step_ms = Max(1, 1000 \div fps)]
    IN  IF W1.sched.running THEN SchedStart(SchedStop(W1)) ELSE W1

\* Scheduler::GetFPSInternal
GetFPSInternal(W) == W.sched.fps

\* a Ptr<State> is nulled when the State it watches is deleted: the handles
\* hs whose live_ is s
RECURSIVE NullPtrs(_, _, _)
NullPtrs(W, s, hs) ==
    IF hs = {} THEN W
    ELSE LET h == CHOOSE x \in hs : TRUE
         IN  NullPtrs(IF W.anims[h].live = s THEN [W EXCEPT !.anims[h].live = Null] ELSE W,
                      s, hs \ {h})

\* Scheduler::DeleteState.  Deleting the State nulls every Ptr<State> that
\* watches it (Animation::live_); deleting it twice is a double free
DeleteState(W, s) ==
    IF s = Null THEN W
    ELSE IF W.states[s].alloc # "live" THEN Fault(W, "double_free")
    ELSE NullPtrs([W EXCEPT !.states[s] = FreedState,
                            !.obs[s].active_ms = 0, !.obs[s].leg_ms = 0],
                  s, Handles)

RemoveAt(seq, i) == SubSeq(seq, 1, i - 1) \o SubSeq(seq, i + 1, Len(seq))

\* Scheduler::Add
SchedAdd(W, s) == SchedStart([W EXCEPT !.active = Append(@, s)])

\* SchedRemove without the test of sweeping: the state is erased and freed at
\* once, also in the middle of a frame
SchedRemoveNow(W, s) ==
    IF s = Null THEN W
    ELSE LET found == {i \in 1..Len(W.active) : W.active[i] = s}
             W1 == IF found = {} THEN W
                   ELSE LET i == CHOOSE k \in found : \A j \in found : k <= j
                        IN  [DeleteState(W, s) EXCEPT !.active = RemoveAt(@, i)]
         IN  IF W1.active = <<>> THEN SchedStop(W1) ELSE W1

\* Scheduler::Remove
SchedRemove(W, s) ==
    IF s = Null THEN W
    ELSE IF W.sched.sweeping THEN [W EXCEPT !.states[s].dying = TRUE]
    ELSE LET found == {i \in 1..Len(W.active) : W.active[i] = s}
             W1 == IF found = {} THEN W
                   ELSE LET i == CHOOSE k \in found : \A j \in found : k <= j
                        IN  [DeleteState(W, s) EXCEPT !.active = RemoveAt(@, i)]
         IN  IF W1.active = <<>> THEN SchedStop(W1) ELSE W1

\* KillOne reporting the run's progress to the handle instead of 0.0
KillOneSnapshot(W, c, i) ==
    LET s == W.active[i] IN
    IF s = Null THEN W
    ELSE IF OwnerGone(W, s) \/ W.states[s].owner = c
    THEN LET a == W.states[s].anim
             W1 == IF a # "-"
                   THEN [OnStateRemovedCancel(W, a, Progress(W, a)) EXCEPT !.states[s].anim = "-"]
                   ELSE W
         IN  [W1 EXCEPT !.states[s].dying = TRUE]
    ELSE W

\* KillOne without the test of the owner: every run is killed
KillOneAny(W, c, i) ==
    LET s == W.active[i] IN
    IF s = Null THEN W
    ELSE LET W1 == IF W.states[s].anim # "-"
                   THEN [OnStateRemovedCancel(W, W.states[s].anim, Zero)
                            EXCEPT !.states[s].anim = "-"]
                   ELSE W
         IN  [W1 EXCEPT !.states[s].dying = TRUE]

\* Scheduler::KillFor, entry i of the scan
KillOne(W, c, i) ==
    LET s == W.active[i] IN
    IF s = Null THEN W
    ELSE IF OwnerGone(W, s) \/ W.states[s].owner = c
    THEN LET W1 == IF W.states[s].anim # "-"
                   THEN [OnStateRemovedCancel(W, W.states[s].anim, Zero)
                            EXCEPT !.states[s].anim = "-"]
                   ELSE W
         IN  [W1 EXCEPT !.states[s].dying = TRUE]
    ELSE W

RECURSIVE KillFrom(_, _, _)
KillFrom(W, c, i) == IF i < 1 THEN W ELSE KillFrom(KillOne(W, c, i), c, i - 1)

\* Scheduler::KillFor
KillFor(W, c) == KillFrom(W, c, Len(W.active))

\* DetachOne reporting 0.0 to the handle, as KillFor does
DetachOneZero(W, i) ==
    LET s == W.active[i] IN
    IF s = Null \/ W.states[s].anim = "-" THEN W
    ELSE LET a == W.states[s].anim
         IN  IF ~W.anims[a].exists THEN Fault(W, "write_to_destroyed_handle")
             ELSE [OnStateRemovedCancel(W, a, Zero) EXCEPT !.states[s].anim = "-"]

\* Scheduler::Finalize, phase 1, entry i
DetachOne(W, i) ==
    LET s == W.active[i] IN
    IF s = Null \/ W.states[s].anim = "-" THEN W
    ELSE LET a == W.states[s].anim
         IN  IF ~W.anims[a].exists THEN Fault(W, "write_to_destroyed_handle")
             ELSE [OnStateRemovedCancel(W, a, Progress(W, a)) EXCEPT !.states[s].anim = "-"]

RECURSIVE DetachFrom(_, _)
DetachFrom(W, i) == IF i > Len(W.active) THEN W ELSE DetachFrom(DetachOne(W, i), i + 1)

RECURSIVE DeleteFrom(_, _)
DeleteFrom(W, i) ==
    IF i > Len(W.active) THEN W ELSE DeleteFrom(DeleteState(W, W.active[i]), i + 1)

\* Scheduler::Finalize
SchedFinalize(W) ==
    LET W1 == BumpTimerId([W EXCEPT !.sched.running = FALSE])
        W2 == [W1 EXCEPT !.sched.ticker = {}]
        W3 == DeleteFrom(DetachFrom(W2, 1), 1)
    IN  [W3 EXCEPT !.active = <<>>, !.sched.manual_last_now = 0]

-----------------------------------------------------------------------------
(* Invoking a user callback of run s.  The callers test that it is set.    *)

RECURSIVE Invoke(_, _, _, _)

IsSet(W, s, cb) == W.states[s].spec[cb].act # "unset"

-----------------------------------------------------------------------------
(* Animation::State::Step *)

\* if (spec.on_finish) spec.on_finish(); return false;
StepFinish(W, s) ==
    Then(IF IsSet(W, s, "on_finish") THEN Invoke(W, s, "on_finish", NoValue) ELSE W,
         LAMBDA W1 : Ret(W1, FALSE))

\* StepNextLeg that lets the next leg go on from the timing of the last
StepNextLegKeep(W, s, now) == Ret(W, TRUE)

\* start_ms = now; elapsed_ms = 0;  ... return true;
StepNextLeg(W, s, now) ==
    Ret([W EXCEPT !.states[s].start_ms = now, !.states[s].elapsed_ms = 0,
                  !.obs[s].leg_ms = W.clock - now], TRUE)

\* StepCountDown that never counts: every leg is followed by another
StepCountDownNever(W, s, now) == StepNextLeg(W, s, now)

\* StepCountDown counting the cycles of an endless run as well
StepCountDownAlways(W, s, now) ==
    LET W1 == [W EXCEPT !.states[s].cycles = @ - 1]
    IN  IF W1.states[s].cycles <= 0 THEN StepFinish(W1, s) ELSE StepNextLeg(W1, s, now)

\* if (spec.loop_count >= 0 && --cycles <= 0) finish, else next leg
StepCountDown(W, s, now) ==
    IF W.states[s].spec.loop_count >= 0
    THEN LET W1 == [W EXCEPT !.states[s].cycles = @ - 1]
         IN  IF W1.states[s].cycles <= 0 THEN StepFinish(W1, s) ELSE StepNextLeg(W1, s, now)
    ELSE StepNextLeg(W, s, now)

\* StepLeg counting a cycle at the end of every leg, forward legs included
StepLegEveryLeg(W, s, now, leg_progress) ==
    IF leg_progress # One THEN Ret(W, TRUE)
    ELSE LET W0 == IF W.states[s].reverse
                   THEN [W EXCEPT !.obs[s].rev_legs = Bump(@)]
                   ELSE [W EXCEPT !.obs[s].fwd_legs = Bump(@)]
         IN  StepCountDown([W0 EXCEPT !.states[s].reverse = IF W0.states[s].spec.yoyo
                                                            THEN ~@ ELSE @], s, now)

\* the part of Step after the callbacks: "Leg finished?"
StepLeg(W, s, now, leg_progress) ==
    IF leg_progress # One THEN Ret(W, TRUE)
    ELSE IF W.states[s].alloc # "live" THEN Fault(W, "use_after_free")
    ELSE LET W0 == IF W.states[s].reverse
                   THEN [W EXCEPT !.obs[s].rev_legs = Bump(@)]
                   ELSE [W EXCEPT !.obs[s].fwd_legs = Bump(@)]
         IN  IF W0.states[s].spec.yoyo
             THEN LET W1 == [W0 EXCEPT !.states[s].reverse = ~@]
                  IN  IF ~W1.states[s].reverse THEN StepCountDown(W1, s, now)
                      ELSE StepNextLeg(W1, s, now)
             ELSE StepCountDown(W0, s, now)

\* if (spec.tick && !spec.tick(e)) return false;
StepTick(W, s, now, leg_progress, e) ==
    IF W.states[s].alloc # "live" THEN Fault(W, "use_after_free")
    ELSE Then(IF IsSet(W, s, "tick") THEN Invoke(W, s, "tick", e) ELSE Ret(W, TRUE),
              LAMBDA W1 : IF ~W1.ret THEN Ret(W1, FALSE)
                          ELSE StepLeg(W1, s, now, leg_progress))

\* Step invoking tick before on_update
StepTickFirst(W, s, now) ==
    LET st == W.states[s] IN
    IF OwnerGone(W, s) THEN Ret(W, FALSE)
    ELSE IF st.paused THEN Ret(W, TRUE)
    ELSE LET local == now - st.start_ms + st.elapsed_ms IN
         IF local < st.spec.delay_ms THEN Ret(W, TRUE)
         ELSE LET dur == Max(1, st.spec.duration_ms)
                  leg_progress == ClampFrac(local - st.spec.delay_ms, dur)
                  t == IF st.reverse THEN OneMinus(leg_progress) ELSE leg_progress
                  e == Ease(st.spec.easing, t)
              IN  Then(IF IsSet(W, s, "tick") THEN Invoke(W, s, "tick", e) ELSE Ret(W, TRUE),
                       LAMBDA W1 :
                           IF ~W1.ret THEN Ret(W1, FALSE)
                           ELSE Then(IF IsSet(W1, s, "on_update")
                                     THEN Invoke(W1, s, "on_update", e) ELSE W1,
                                     LAMBDA W2 : StepLeg(W2, s, now, leg_progress)))

\* Local with the time folded in by Pause() left out
LocalWall(W, s, now) == now - W.states[s].start_ms

\* const int64 local = now - start_ms + elapsed_ms;
Local(W, s, now) == now - W.states[s].start_ms + W.states[s].elapsed_ms

\* Animation::State::Step; the result is in ret
Step(W, s, now) ==
    LET st == W.states[s] IN
    IF OwnerGone(W, s) THEN Ret(W, FALSE)
    ELSE IF st.paused THEN Ret(W, TRUE)
    ELSE LET local == Local(W, s, now) IN
         IF local < st.spec.delay_ms THEN Ret(W, TRUE)
         ELSE LET dur == Max(1, st.spec.duration_ms)
                  leg_progress == ClampFrac(local - st.spec.delay_ms, dur)
                  t == IF st.reverse THEN OneMinus(leg_progress) ELSE leg_progress
                  e == Ease(st.spec.easing, t)
              IN  Then(IF IsSet(W, s, "on_update") THEN Invoke(W, s, "on_update", e) ELSE W,
                       LAMBDA W1 : StepTick(W1, s, now, leg_progress, e))

-----------------------------------------------------------------------------
(* Scheduler::RunFrame *)

\* FrameReport taking every removal for a natural finish
FrameReportFinish(W, s) ==
    IF s = Null \/ W.states[s].anim = "-" THEN W
    ELSE [OnStateRemovedFinish(W, W.states[s].anim) EXCEPT !.states[s].anim = "-"]

\* if (!cont) { report to the handle; to_remove.Add(i); }
FrameReport(W, s) ==
    IF s = Null THEN W
    ELSE IF W.states[s].alloc # "live" THEN Fault(W, "use_after_free")
    ELSE IF W.states[s].anim = "-" THEN W
    ELSE LET a == W.states[s].anim
             W1 == IF OwnerGone(W, s) THEN OnStateRemovedCancel(W, a, Zero)
                   ELSE OnStateRemovedFinish(W, a)
         IN  [W1 EXCEPT !.states[s].anim = "-"]

\* Catch without the handler: the exception leaves RunFrame
CatchNothing(W) == W

\* catch (...) { cont = false; }
Catch(W) ==
    IF W.exc /\ W.fault = "none" /\ ~W.oob THEN Ret([W EXCEPT !.exc = FALSE], FALSE) ELSE W

\* bool cont = false; if (s && !s->dying) { try { cont = s->Step(now); } catch ... }
FrameStep(W, s, now) ==
    IF s = Null \/ W.states[s].dying THEN Ret(W, FALSE) ELSE Catch(Step(W, s, now))

\* the scan: for (int i = 0; i < active.GetCount(); ++i); the result is the
\* world with the indices to remove in ret
RECURSIVE FrameScan(_, _, _, _)
FrameScan(W, now, i, to_remove) ==
    IF Halted(W) THEN W
    ELSE IF i > Len(W.active) THEN Ret(W, to_remove)
    ELSE Then(FrameStep(W, W.active[i], now),
              LAMBDA W1 : IF W1.ret THEN FrameScan(W1, now, i + 1, to_remove)
                          ELSE FrameScan(FrameReport(W1, W.active[i]), now, i + 1,
                                         Append(to_remove, i)))

\* for (k = to_remove.GetCount() - 1; k >= 0; --k) { DeleteState; active.Remove }
RECURSIVE FrameSweep(_, _, _)
FrameSweep(W, to_remove, k) ==
    IF Halted(W) \/ k < 1 THEN W
    ELSE LET i == to_remove[k] IN
         IF i > Len(W.active) THEN Fault(W, "index_out_of_range")
         ELSE FrameSweep([DeleteState(W, W.active[i]) EXCEPT !.active = RemoveAt(@, i)],
                         to_remove, k - 1)

\* Scheduler::RunFrame
RunFrame(W, now) ==
    Then(FrameScan([W EXCEPT !.sched.sweeping = TRUE], now, 1, <<>>),
         LAMBDA W1 :
             Then(FrameSweep([W1 EXCEPT !.sched.sweeping = FALSE], W1.ret, Len(W1.ret)),
                  LAMBDA W2 : IF W2.active = <<>> THEN SchedStop(W2) ELSE W2))

\* TickTimer re-arming with KillSet: the callback it queues replaces those
\* that are queued
TickTimerReplace(W, id) ==
    IF id # "valid" \/ ~W.sched.running THEN W
    ELSE Then(RunFrame([W EXCEPT !.sched.in_tick = "valid"], W.clock),
              LAMBDA W1 :
                  IF W1.active # <<>>
                  THEN [W1 EXCEPT !.sched.ticker = {W1.sched.in_tick},
                                  !.sched.in_tick = "none"]
                  ELSE [W1 EXCEPT !.sched.in_tick = "none"])

\* TickTimer re-arming after every frame, whatever is left in the active set
TickTimerAlways(W, id) ==
    IF id # "valid" \/ ~W.sched.running THEN W
    ELSE Then(RunFrame([W EXCEPT !.sched.in_tick = "valid"], W.clock),
              LAMBDA W1 : [W1 EXCEPT !.sched.ticker = @ \cup {W1.sched.in_tick},
                                     !.sched.in_tick = "none"])

\* TickTimer running the frame whatever id the callback carries
TickTimerAnyId(W, id) ==
    IF ~W.sched.running THEN W
    ELSE Then(RunFrame([W EXCEPT !.sched.in_tick = id], W.clock),
              LAMBDA W1 :
                  IF W1.active # <<>>
                  THEN [W1 EXCEPT !.sched.ticker = @ \cup {W1.sched.in_tick},
                                  !.sched.in_tick = "none"]
                  ELSE [W1 EXCEPT !.sched.in_tick = "none"])

\* Scheduler::TickTimer, called with the id the TimeCallback carried
TickTimer(W, id) ==
    IF id # "valid" \/ ~W.sched.running THEN W
    ELSE Then(RunFrame([W EXCEPT !.sched.in_tick = "valid"], W.clock),
              LAMBDA W1 :
                  IF W1.active # <<>>
                  THEN [W1 EXCEPT !.sched.ticker = @ \cup {W1.sched.in_tick},
                                  !.sched.in_tick = "none"]
                  ELSE [W1 EXCEPT !.sched.in_tick = "none"])

\* Scheduler::TickManualOnce
TickManualOnce(W, max_ms_per_tick) ==
    LET wall_now == W.clock
        last_now == IF W.sched.manual_last_now = 0 THEN wall_now ELSE W.sched.manual_last_now
        dt0 == wall_now - last_now
        dt1 == IF max_ms_per_tick > 0 /\ dt0 > max_ms_per_tick THEN max_ms_per_tick ELSE dt0
        dt == IF dt1 < 0 THEN 0 ELSE dt1
    IN  RunFrame([W EXCEPT !.sched.manual_last_now = last_now + dt], last_now + dt)

-----------------------------------------------------------------------------
(* Animation: staging setters *)

\* EnsureStaging_ priming the staging from the spec of the last run
EnsureStagingLast(W, h) ==
    IF W.anims[h].staging # NoSpec THEN W
    ELSE [W EXCEPT !.anims[h].staging =
                       IF W.anims[h].last_spec # NoSpec THEN W.anims[h].last_spec
                       ELSE DefaultStaging]

\* Animation::EnsureStaging_
EnsureStaging(W, h) ==
    IF W.anims[h].staging # NoSpec THEN W ELSE [W EXCEPT !.anims[h].staging = DefaultStaging]

\* Animation::Duration, Ease, Loop, Yoyo, Delay, OnStart, OnFinish, OnCancel,
\* OnUpdate, operator(): EnsureStaging_(); staging_->field = value
Setter(W, h, field, value) ==
    [EnsureStaging(W, h) EXCEPT !.anims[h].staging[field] = value]

\* a fluent chain a.X(..).Y(..): the setters applied left to right
RECURSIVE Chain(_, _, _)
Chain(W, h, calls) ==
    IF calls = <<>> THEN W
    ELSE Chain(Setter(W, h, Head(calls)[1], Head(calls)[2]), h, Tail(calls))

-----------------------------------------------------------------------------
(* Animation: control methods *)

\* Animation::_Unschedule
Unschedule(W, h, fire_cancel) ==
    LET s == W.anims[h].live IN
    IF s = Null THEN W
    ELSE Then(IF fire_cancel /\ IsSet(W, s, "on_cancel")
              THEN Invoke(W, s, "on_cancel", NoValue) ELSE W,
              LAMBDA W1 :
                  IF ~W1.anims[h].exists THEN Fault(W1, "use_after_free")
                  ELSE LET p == Progress(W1, h)
                           st == W1.anims[h].live
                       IN  IF st = Null THEN Fault(W1, "null_deref")
                           ELSE LET W2 == [W1 EXCEPT !.anims[h].live = Null,
                                                     !.states[st].anim = "-"]
                                IN  OnStateRemovedCancel(SchedRemove(W2, st), h, p))

\* Cancel that clears the progress cache whenever it is called
CancelClearing(W, h) ==
    IF W.anims[h].live = Null THEN [W EXCEPT !.anims[h].progress_cache = Zero]
    ELSE Unschedule(W, h, TRUE)

\* Animation::Cancel
Cancel(W, h) == Unschedule(W, h, TRUE)

\* Animation::Reset
Reset(W, h) ==
    Then(Unschedule(W, h, FALSE),
         LAMBDA W1 : [EnsureStaging(W1, h) EXCEPT !.anims[h].progress_cache = Zero])

\* Cycles with a yoyo run counted like any other: one cycle per loop
CyclesPlain(spec) == IF spec.loop_count < 0 THEN INT_MAX ELSE spec.loop_count

\* live_->cycles as Play computes it
Cycles(spec) ==
    IF spec.loop_count < 0 THEN INT_MAX
    ELSE IF spec.yoyo THEN (spec.loop_count + 1) \div 2
    ELSE spec.loop_count

\* the addresses new State can return
FreeIds(W) == {s \in StateIds : W.states[s].alloc # "live"}

\* PlayStaged copying the staged spec: staging_ stays set
PlayStagedKeep(W, h) ==
    IF FreeIds(W) = {} THEN [W EXCEPT !.oob = TRUE]
    ELSE IF OwnerOf(h) \notin W.owners THEN Fault(W, "dangling_owner")
    ELSE LET s == CHOOSE x \in FreeIds(W) : \A y \in FreeIds(W) : x <= y
             spec == W.anims[h].staging
             W1 == [W EXCEPT
                      !.states[s] = [FreshState EXCEPT
                                        !.alloc = "live", !.anim = h, !.owner = OwnerOf(h),
                                        !.spec = spec, !.start_ms = W.clock,
                                        !.cycles = Cycles(spec)],
                      !.obs[s] = NoObs,
                      !.anims[h].live = s,
                      !.anims[h].last_spec = spec,
                      !.anims[h].progress_cache = Zero]
         IN  Then(IF IsSet(W1, s, "on_start") THEN Invoke(W1, s, "on_start", NoValue)
                  ELSE W1,
                  LAMBDA W2 : IF ~W2.anims[h].exists THEN Fault(W2, "use_after_free")
                              ELSE SchedAdd(W2, W2.anims[h].live))

\* PlayStaged registering the State before it fires on_start
PlayStagedAddFirst(W, h) ==
    IF FreeIds(W) = {} THEN [W EXCEPT !.oob = TRUE]
    ELSE IF OwnerOf(h) \notin W.owners THEN Fault(W, "dangling_owner")
    ELSE LET s == CHOOSE x \in FreeIds(W) : \A y \in FreeIds(W) : x <= y
             spec == W.anims[h].staging
             W1 == [W EXCEPT
                      !.states[s] = [FreshState EXCEPT
                                        !.alloc = "live", !.anim = h, !.owner = OwnerOf(h),
                                        !.spec = spec, !.start_ms = W.clock,
                                        !.cycles = Cycles(spec)],
                      !.obs[s] = NoObs,
                      !.anims[h].live = s,
                      !.anims[h].staging = NoSpec,
                      !.anims[h].last_spec = spec,
                      !.anims[h].progress_cache = Zero]
         IN  Then(SchedAdd(W1, s),
                  LAMBDA W2 : IF IsSet(W2, s, "on_start")
                              THEN Invoke(W2, s, "on_start", NoValue) ELSE W2)

\* Animation::Play from "Build a live State" on, staging_ being set
PlayStaged(W, h) ==
    IF FreeIds(W) = {} THEN [W EXCEPT !.oob = TRUE]
    ELSE IF OwnerOf(h) \notin W.owners THEN Fault(W, "dangling_owner")
    ELSE LET s == CHOOSE x \in FreeIds(W) : \A y \in FreeIds(W) : x <= y
             spec == W.anims[h].staging
             W1 == [W EXCEPT
                      !.states[s] = [FreshState EXCEPT
                                        !.alloc = "live", !.anim = h, !.owner = OwnerOf(h),
                                        !.spec = spec, !.start_ms = W.clock,
                                        !.cycles = Cycles(spec)],
                      !.obs[s] = NoObs,
                      !.anims[h].live = s,
                      !.anims[h].staging = NoSpec,
                      !.anims[h].last_spec = spec,
                      !.anims[h].progress_cache = Zero]
         IN  Then(IF IsSet(W1, s, "on_start") THEN Invoke(W1, s, "on_start", NoValue)
                  ELSE W1,
                  LAMBDA W2 : IF ~W2.anims[h].exists THEN Fault(W2, "use_after_free")
                              ELSE SchedAdd(W2, W2.anims[h].live))

\* Animation::Play
Play(W, h) ==
    IF W.anims[h].staging = NoSpec
    THEN IF W.anims[h].last_spec = NoSpec THEN W
         ELSE PlayStaged([W EXCEPT !.anims[h].staging = W.anims[h].last_spec], h)
    ELSE PlayStaged(W, h)

\* Replay interrupting the live run the way Cancel() does
ReplayLoud(W, h) ==
    IF W.anims[h].staging # NoSpec
    THEN Then(Unschedule(W, h, TRUE), LAMBDA W1 : Play(W1, h))
    ELSE IF W.anims[h].last_spec = NoSpec THEN W
    ELSE Then(Unschedule(W, h, TRUE),
              LAMBDA W1 : Play([W1 EXCEPT !.anims[h].staging = W1.anims[h].last_spec], h))

\* Animation::Replay
Replay(W, h) ==
    IF W.anims[h].staging # NoSpec
    THEN Then(Unschedule(W, h, FALSE), LAMBDA W1 : Play(W1, h))
    ELSE IF W.anims[h].last_spec = NoSpec THEN W
    ELSE Then(Unschedule(W, h, FALSE),
              LAMBDA W1 : Play([W1 EXCEPT !.anims[h].staging = W1.anims[h].last_spec], h))

\* Pause without the test of paused: a second Pause() folds time in again
PauseAgain(W, h) ==
    LET s == W.anims[h].live IN
    IF s # Null
    THEN MaybeStopIfAllPaused(
             [W EXCEPT !.states[s].elapsed_ms = @ + (W.clock - W.states[s].start_ms),
                       !.states[s].paused = TRUE])
    ELSE W

\* Animation::Pause
Pause(W, h) ==
    LET s == W.anims[h].live IN
    IF s # Null /\ ~W.states[s].paused
    THEN MaybeStopIfAllPaused(
             [W EXCEPT !.states[s].elapsed_ms = @ + (W.clock - W.states[s].start_ms),
                       !.states[s].paused = TRUE])
    ELSE W

\* Resume that leaves start_ms where it was
ResumeKeepStart(W, h) ==
    LET s == W.anims[h].live IN
    IF s # Null /\ W.states[s].paused
    THEN EnsureRunningIfAnyUnpaused([W EXCEPT !.states[s].paused = FALSE])
    ELSE W

\* Animation::Resume
Resume(W, h) ==
    LET s == W.anims[h].live IN
    IF s # Null /\ W.states[s].paused
    THEN EnsureRunningIfAnyUnpaused(
             [W EXCEPT !.states[s].start_ms = W.clock, !.states[s].paused = FALSE])
    ELSE W

\* Animation::Stop, from "Animation::State* st = live_" on
StopDetach(W, h) ==
    IF ~W.anims[h].exists THEN Fault(W, "use_after_free")
    ELSE LET st == W.anims[h].live
             W1 == OnStateRemovedFinish(W, h)
         IN  IF st = Null THEN Fault(W1, "null_deref")
             ELSE SchedRemove([W1 EXCEPT !.states[st].anim = "-"], st)

\* Animation::Stop, from "if (live_->spec.on_finish)" on
StopFinish(W, h) ==
    IF ~W.anims[h].exists THEN Fault(W, "use_after_free")
    ELSE LET s == W.anims[h].live IN
         IF s = Null THEN Fault(W, "null_deref")
         ELSE Then(IF IsSet(W, s, "on_finish") THEN Invoke(W, s, "on_finish", NoValue)
                   ELSE W,
                   LAMBDA W1 : StopDetach(W1, h))

\* StopValue with the direction ignored: the final tick is always 1.0
StopValueForward(W, s) == Plain(One)

\* live_->reverse ? 0.0 : 1.0
StopValue(W, s) == Plain(IF W.states[s].reverse THEN Zero ELSE One)

\* Animation::Stop
Stop(W, h) ==
    LET s == W.anims[h].live IN
    IF s = Null THEN W
    ELSE Then(IF IsSet(W, s, "tick") THEN Invoke(W, s, "tick", StopValue(W, s)) ELSE W,
              LAMBDA W1 : StopFinish(W1, h))

\* ~Animation leaving the run as it is
DestroyBare(W, h) == [W EXCEPT !.anims[h].exists = FALSE]

\* Animation::~Animation
Destroy(W, h) ==
    Then(Unschedule(W, h, FALSE), LAMBDA W1 : [W1 EXCEPT !.anims[h].exists = FALSE])

\* Animation::KillAllFor
KillAllFor(W, c) == KillFor(W, c)

\* Animation::Finalize
Finalize(W) == SchedFinalize(W)

\* Animation::SetFPS
SetFPS(W, f) == SetFPSInternal(W, f)

\* Animation::GetFPS
GetFPS(W) == GetFPSInternal(W)

\* Animation::IsPlaying
IsPlaying(W, h) == W.anims[h].live # Null /\ ~W.states[W.anims[h].live].paused

\* Animation::IsPaused
IsPaused(W, h) == W.anims[h].live # Null /\ W.states[W.anims[h].live].paused

\* a callback that starts a run on a handle of its own, not used before:
\* spawned->operator()(tick).Duration(80).Play()
SpawnChain == << <<"tick", Count>>, <<"duration_ms", 200>> >>

Spawn(W, h) ==
    IF W.anims[h].live # Null \/ W.anims[h].last_spec # NoSpec THEN [W EXCEPT !.oob = TRUE]
    ELSE Play(Chain(W, h, SpawnChain), h)

-----------------------------------------------------------------------------
(* What a callback script does: one call into the public API, made by user *)
(* code that still holds the handle (a destroyed handle is not called).    *)

Perform(W, script) ==
    IF script.act \in {"none", "unset"} THEN W
    ELSE IF script.act = "Spawn" THEN Spawn(W, script.tgt)
    ELSE IF script.act = "Throw" THEN [W EXCEPT !.exc = TRUE]
    ELSE IF script.act = "Finalize" THEN Finalize(W)
    ELSE IF script.act = "KillAllFor" THEN KillAllFor(W, OwnerOf(script.tgt))
    ELSE IF script.act = "SetFPS" THEN SetFPS(W, 30)
    ELSE IF ~W.anims[script.tgt].exists THEN W
    ELSE IF script.act = "Cancel" THEN Cancel(W, script.tgt)
    ELSE IF script.act = "Stop" THEN Stop(W, script.tgt)
    ELSE IF script.act = "Pause" THEN Pause(W, script.tgt)
    ELSE IF script.act = "Resume" THEN Resume(W, script.tgt)
    ELSE IF script.act = "Play" THEN Play(W, script.tgt)
    ELSE IF script.act = "Replay" THEN Replay(W, script.tgt)
    ELSE IF script.act = "Reset" THEN Reset(W, script.tgt)
    ELSE IF script.act = "Destroy" THEN Destroy(W, script.tgt)
    ELSE W

\* the callback cb of run s is invoked with value val: it is counted, its
\* script runs on the first invocation, and its result is left in ret
Invoke(W, s, cb, val) ==
    LET script == W.states[s].spec[cb]
        first == W.obs[s][cb] = 0
        W1 == [W EXCEPT !.obs[s][cb] = Bump(@),
                        !.obs[s].tick_val = IF cb = "tick" THEN val ELSE @,
                        !.obs[s].update_val = IF cb = "on_update" THEN val ELSE @]
    IN  Then(IF first THEN Perform(W1, script) ELSE W1, LAMBDA W2 : Ret(W2, script.ret))

-----------------------------------------------------------------------------
(* The state machine.  Every action is one call made by the application,   *)
(* by the timer or by the test driver, run to its end.                     *)

Init ==
    /\ anims = [h \in Handles |-> FreshAnim]
    /\ states = [s \in StateIds |-> FreshState]
    /\ active = <<>>
    /\ sched = FreshSched
    /\ owners = Ctrls
    /\ clock = ClockStart
    /\ obs = [s \in StateIds |-> NoObs]
    /\ fault = "none"

\* the operation ended in world W: an exception that reaches the caller of a
\* public operation ends the behaviour, as undefined behaviour does
Commit(W) ==
    /\ ~W.oob
    /\ anims' = W.anims
    /\ states' = W.states
    /\ active' = W.active
    /\ sched' = W.sched
    /\ owners' = W.owners
    /\ clock' = W.clock
    /\ obs' = W.obs
    /\ fault' = IF W.fault = "none" /\ W.exc THEN "uncaught_exception" ELSE W.fault

\* the world after the step
WorldNext ==
    [anims |-> anims', states |-> states', active |-> active', sched |-> sched',
     owners |-> owners', clock |-> clock', obs |-> obs', fault |-> fault',
     ret |-> TRUE, exc |-> FALSE, oob |-> FALSE]

Alive(h) == fault = "none" /\ anims[h].exists

\* a fluent chain of setters, a.X(..).Y(..)
Configure(h, calls) == Alive(h) /\ Commit(Chain(World, h, calls))

DoPlay(h) == Alive(h) /\ Commit(Play(World, h))

DoReplay(h) == Alive(h) /\ Commit(Replay(World, h))

DoPause(h) == Alive(h) /\ Commit(Pause(World, h))

DoResume(h) == Alive(h) /\ Commit(Resume(World, h))

DoStop(h) == Alive(h) /\ Commit(Stop(World, h))

DoCancel(h) == Alive(h) /\ Commit(Cancel(World, h))

DoReset(h) == Alive(h) /\ Commit(Reset(World, h))

DoKillAllFor(c) == fault = "none" /\ c \in owners /\ Commit(KillAllFor(World, c))

DoFinalize == fault = "none" /\ Commit(Finalize(World))

\* Animation::Tick(1, 0), i.e. TickOnce: one manual frame at the wall clock
DoTick == fault = "none" /\ Commit(TickManualOnce(World, 0))

\* the handle is destroyed by the application
DoDestroy(h) == Alive(h) /\ Commit(Destroy(World, h))

\* Animation::SetFPS(f), called by the application
DoSetFPS(f) == fault = "none" /\ Commit(SetFPS(World, f))

\* a queued TimeCallback comes due: the event loop takes it off the queue and
\* calls Scheduler::TickTimer with the id it carries
DoTimer ==
    /\ fault = "none"
    /\ \E id \in sched.ticker :
           Commit(TickTimer([World EXCEPT !.sched.ticker = @ \ {id}], id))

\* the owner Ctrl c is destroyed: every Ptr<Ctrl> to it reads as null from now on
DestroyOwner(c) ==
    /\ fault = "none"
    /\ c \in owners
    /\ owners' = owners \ {c}
    /\ UNCHANGED <<anims, states, active, sched, clock, obs, fault>>

\* the wall clock moves on; the observers' stopwatches run for unpaused runs
Advance(dt) ==
    /\ fault = "none"
    /\ clock + dt <= MaxClock
    /\ clock' = clock + dt
    /\ obs' = [s \in StateIds |->
                 IF states[s].alloc = "live" /\ ~states[s].paused
                 THEN [obs[s] EXCEPT !.active_ms = @ + dt, !.leg_ms = @ + dt]
                 ELSE obs[s]]
    /\ UNCHANGED <<anims, states, active, sched, owners, fault>>

-----------------------------------------------------------------------------
(* Spec: one handle driven the way the probes drive it, one run at a time, *)
(* with callbacks that only observe.                                       *)

Observers ==
    << <<"tick", Count>>, <<"on_finish", Count>>, <<"on_cancel", Count>> >>

\* the runs the probes configure: one leg; a delayed leg with on_update; a
\* yoyo round trip
Chains ==
    { Observers \o << <<"duration_ms", 200>> >>,
      Observers \o << <<"on_update", Count>>, <<"delay_ms", 200>>, <<"duration_ms", 200>> >>,
      Observers \o << <<"yoyo", TRUE>>, <<"loop_count", 2>>, <<"duration_ms", 300>> >> }

\* the setters are called on a handle at rest, once per run
Stage(h, calls) ==
    /\ anims[h].live = Null
    /\ anims[h].staging \in {NoSpec, DefaultStaging}
    /\ Configure(h, calls)

\* Play on a handle at rest, the scheduler being idle
PlayIdle(h) == active = <<>> /\ DoPlay(h)

Next ==
    \/ \E calls \in Chains : Stage("a", calls)
    \/ PlayIdle("a")
    \/ DoPause("a")
    \/ DoResume("a")
    \/ DoStop("a")
    \/ DoCancel("a")
    \/ DoKillAllFor("c1")
    \/ DoFinalize
    \/ DoTick
    \/ \E dt \in Dts : Advance(dt)

Spec == Init /\ [][Next]_vars

-----------------------------------------------------------------------------
(* Properties of Spec *)

\* what the callbacks of a run have been seen to do
Seen(o) == <<o.on_start, o.on_update, o.tick, o.on_finish, o.on_cancel, o.tick_val,
             o.update_val>>

InActive(seq, s) == \E i \in 1..Len(seq) : seq[i] = s

StopLive(h) ==
    LET s == anims[h].live IN
    (s # Null /\ DoStop(h)) =>
        /\ IsSet(World, s, "tick") =>
              /\ obs'[s].tick = Bump(obs[s].tick)
              /\ obs'[s].tick_val = Plain(IF states[s].reverse THEN Zero ELSE One)
        /\ IsSet(World, s, "on_finish") => obs[s].on_finish = 0 /\ obs'[s].on_finish = 1
        /\ obs[s].on_cancel = 0 /\ obs'[s].on_cancel = 0
        /\ anims'[h].live = Null
        /\ Progress(WorldNext, h) = One

\* C2: Stop() on a live handle, playing or paused, on a forward or a reverse
\* leg, delivers one final tick with 0.0 if the leg is reversed and 1.0
\* otherwise, fires on_finish exactly once and never on_cancel, leaves the
\* handle not live and Progress() at exactly 1.0; Stop() on a handle that is
\* not live fires no callback and changes nothing.
C2_Stop ==
    /\ [](\A h \in Handles : anims[h].live = Null => Stop(World, h) = World)
    /\ [][StopLive("a")]_vars

\* Stop() was called on a reverse leg before that leg ran to its end
C2_Witness ==
    /\ anims["a"].live = Null /\ anims["a"].progress_cache = One
    /\ obs[1].tick_val = Plain(Zero) /\ obs[1].on_finish = 1 /\ obs[1].on_cancel = 0
    /\ obs[1].fwd_legs = 1 /\ obs[1].rev_legs = 0

CancelLive(h) ==
    LET s == anims[h].live IN
    (s # Null /\ DoCancel(h)) =>
        /\ IsSet(World, s, "on_cancel") => obs[s].on_cancel = 0 /\ obs'[s].on_cancel = 1
        /\ obs[s].on_finish = 0 /\ obs'[s].on_finish = 0
        /\ obs'[s].tick = obs[s].tick /\ obs'[s].on_update = obs[s].on_update
        /\ anims'[h].live = Null
        /\ ~InActive(active', s)
        /\ Progress(WorldNext, h) =
               ClampFrac(obs[s].leg_ms - states[s].spec.delay_ms,
                         Max(1, states[s].spec.duration_ms))

\* C3: Cancel() on a live handle, called from outside any callback, fires
\* on_cancel exactly once and never on_finish, detaches the handle, removes
\* the state from the active set, and leaves Progress() at the forward-time
\* progress clamp((active time of the leg - delay) / duration, 0, 1) of the
\* moment of the call, not at the eased or direction-adjusted value.
C3_Cancel == [][CancelLive("a")]_vars

\* Cancel() was called a third of the way into the reverse leg
C3_Witness ==
    /\ anims["a"].live = Null /\ anims["a"].progress_cache = <<1, 3>>
    /\ obs[1].on_cancel = 1 /\ obs[1].on_finish = 0
    /\ obs[1].fwd_legs = 1 /\ obs[1].tick_val.t = <<2, 3>>

\* C4: Cancel() is idempotent: a second Cancel(), on a handle that is no
\* longer live, fires no callback, leaves the progress cache, the staged spec
\* and the active set unchanged, and no state is freed twice.
C4_CancelIdempotent ==
    \A h \in Handles :
        LET W1 == Cancel(World, h)
            W2 == Cancel(W1, h)
        IN  /\ anims[h].live = Null => W1 = World
            /\ W2 = W1
            /\ W1.fault # "double_free" /\ W2.fault # "double_free"

\* the first Cancel() ended a run half way; the handle is at rest
C4_Witness ==
    /\ anims["a"].live = Null /\ anims["a"].progress_cache = <<1, 2>>
    /\ obs[1].on_cancel = 1 /\ states[1].alloc = "freed"

DelayGate(s) ==
    LET st == states[s] IN
    (st.alloc = "live" /\ DoTick) =>
        /\ obs[s].active_ms < st.spec.delay_ms =>
              obs'[s].tick = obs[s].tick /\ obs'[s].on_update = obs[s].on_update
        /\ ( /\ obs[s].active_ms >= st.spec.delay_ms /\ obs[s].tick = 0
             /\ ~st.paused /\ ~st.dying /\ ~OwnerGone(World, s) /\ IsSet(World, s, "tick") )
           => obs'[s].tick = 1

\* C7: for a run with Delay(d) no frame invokes tick or on_update before d ms
\* of active (unpaused) time have elapsed since Play, time spent paused inside
\* the delay window not counting; the first frame delivered once d ms of
\* active time have elapsed invokes tick.
C7_DelayGate == [][\A s \in StateIds : DelayGate(s)]_vars

\* the run was paused for a while half way into its delay window of 200 ms and
\* got its first tick after 200 ms of active time
C7_Witness ==
    /\ states[1].alloc = "live" /\ states[1].spec.delay_ms = 200
    /\ states[1].elapsed_ms = 100 /\ ~states[1].paused
    /\ obs[1].active_ms = 200 /\ obs[1].tick = 1 /\ obs[1].on_update = 1

PausedStep(h) ==
    LET s == anims[h].live IN
    /\ (s # Null /\ states[s].paused /\ (DoTick \/ \E dt \in Dts : Advance(dt))) =>
           /\ Seen(obs'[s]) = Seen(obs[s])
           /\ anims'[h].live = s /\ states'[s] = states[s]
           /\ Progress(WorldNext, h) = Progress(World, h)
    /\ (s # Null /\ DoPause(h)) =>
           /\ Seen(obs'[s]) = Seen(obs[s])
           /\ anims'[h].live = s /\ states'[s].paused
           /\ Progress(WorldNext, h) = Progress(World, h)

\* C8: while a run is paused the frames delivered to the scheduler invoke none
\* of its callbacks and Progress() stays at the value it had when Pause() was
\* called, however many frames are delivered and however much time passes.
C8_PausedFrames == [][PausedStep("a")]_vars

\* a frame was delivered 300 ms after the run was paused half way
C8_Witness ==
    /\ anims["a"].live = 1 /\ states[1].paused /\ Progress(World, "a") = <<1, 2>>
    /\ states[1].start_ms = 100 /\ states[1].elapsed_ms = 100
    /\ clock = 500 /\ sched.manual_last_now = 500 /\ obs[1].tick = 1

\* the leg time Step and Progress use
LegTime(s) ==
    states[s].elapsed_ms + (IF states[s].paused THEN 0 ELSE clock - states[s].start_ms)

PauseResumeStep(h) ==
    (anims[h].live # Null /\ (DoPause(h) \/ DoResume(h))) =>
        Progress(WorldNext, h) = Progress(World, h)

\* C9: Pause/Resume accounting is exact: the leg time used by Step and
\* Progress (elapsed_ms + now - start_ms) is the time since the leg began
\* less the paused intervals, after any number of Pause/Resume pairs, and
\* Progress() right after Resume() is Progress() at the matching Pause().
C9_PauseResumeExact ==
    /\ [](\A s \in StateIds : states[s].alloc = "live" => LegTime(s) = obs[s].leg_ms)
    /\ [][PauseResumeStep("a")]_vars

\* a run resumed after a pause, with time on both sides of the pause
C9_Witness ==
    /\ anims["a"].live = 1 /\ ~states[1].paused
    /\ states[1].elapsed_ms = 100 /\ clock - states[1].start_ms = 100
    /\ obs[1].leg_ms = 200 /\ clock - ClockStart >= 300

YoyoLoop2(s) ==
    states[s].alloc = "live" /\ states[s].spec.yoyo /\ states[s].spec.loop_count = 2

Finishes(s) == obs[s].on_finish = 0 /\ obs'[s].on_finish = 1

YoyoFrame(s) ==
    (YoyoLoop2(s) /\ DoTick) =>
        /\ Finishes(s) => obs'[s].fwd_legs = 1 /\ obs'[s].rev_legs = 1
        /\ (obs[s].rev_legs = 0 /\ obs'[s].rev_legs = 1) => Finishes(s)
        /\ obs'[s].rev_legs <= obs'[s].fwd_legs
        /\ (obs[s].tick >= 1 /\ ~states[s].reverse) =>
               FracLeq(obs[s].tick_val.t, obs'[s].tick_val.t)
        /\ (obs[s].tick >= 1 /\ states[s].reverse) =>
               FracLeq(obs'[s].tick_val.t, obs[s].tick_val.t)

-----------------------------------------------------------------------------
(* SpecReentrant: the same handle with callbacks that call back into the   *)
(* handle that runs them.                                                  *)

ReentrantChains ==
    { << <<"tick", Count>>, <<"on_finish", Call("Cancel", "a")>>, <<"on_cancel", Count>>,
         <<"duration_ms", 200>> >>,
      << <<"tick", Call("Cancel", "a")>>, <<"on_finish", Count>>, <<"on_cancel", Count>>,
         <<"duration_ms", 200>> >>,
      << <<"on_update", Call("Stop", "a")>>, <<"tick", Count>>, <<"on_finish", Count>>,
         <<"on_cancel", Count>>, <<"duration_ms", 200>> >>,
      << <<"tick", Count>>, <<"on_finish", Count>>, <<"on_cancel", Call("Stop", "a")>>,
         <<"duration_ms", 200>> >> }

NextReentrant ==
    \/ \E calls \in ReentrantChains : Stage("a", calls)
    \/ PlayIdle("a")
    \/ DoPause("a")
    \/ DoResume("a")
    \/ DoStop("a")
    \/ DoCancel("a")
    \/ DoKillAllFor("c1")
    \/ DoFinalize
    \/ DoTick
    \/ \E dt \in Dts : Advance(dt)

SpecReentrant == Init /\ [][NextReentrant]_vars

\* C1: for any single run, under any sequence of Play, Pause, Resume, Stop,
\* Cancel, KillAllFor, Finalize and frames, calls made from inside the run's
\* own callbacks included, on_finish and on_cancel never both fire and each
\* fires at most once.
C1_FinishCancelExclusive ==
    \A s \in StateIds :
        /\ obs[s].on_finish <= 1
        /\ obs[s].on_cancel <= 1
        /\ ~(obs[s].on_finish >= 1 /\ obs[s].on_cancel >= 1)

-----------------------------------------------------------------------------
(* SpecOwner: two handles of one owner, each with a run of its own.        *)

OwnerChain(h) ==
    IF h = "a" THEN Observers \o << <<"duration_ms", 200>> >>
    ELSE Observers \o << <<"on_update", Count>>, <<"duration_ms", 400>> >>

\* the setters called on a handle that has not played yet
StageFirst(h) == anims[h].last_spec = NoSpec /\ Stage(h, OwnerChain(h))

\* the first Play of a handle
PlayFirst(h) == anims[h].last_spec = NoSpec /\ DoPlay(h)

NextOwner ==
    \/ \E h \in {"a", "b"} : StageFirst(h)
    \/ \E h \in {"a", "b"} : PlayFirst(h)
    \/ DoPause("b")
    \/ DoKillAllFor("c1")
    \/ DoTick
    \/ \E dt \in Dts : Advance(dt)

SpecOwner == Init /\ [][NextOwner]_vars

KillStep(c) ==
    DoKillAllFor(c) =>
        \A h \in Handles :
            LET s == anims[h].live IN
            (s # Null /\ states[s].owner = c) =>
                /\ anims'[h].live = Null
                /\ Progress(WorldNext, h) = Zero
                /\ states'[s].alloc = "live" /\ states'[s].dying
                /\ InActive(active', s)
                /\ Seen(obs'[s]) = Seen(obs[s])

SweepStep ==
    DoTick =>
        \A s \in StateIds :
            (states[s].alloc = "live" /\ states[s].dying) =>
                /\ states'[s].alloc = "freed"
                /\ ~InActive(active', s)
                /\ Seen(obs'[s]) = Seen(obs[s])

\* C5: KillAllFor(owner) detaches every live run of that owner without firing
\* on_finish or on_cancel; right afterwards each such handle is not live with
\* Progress() exactly 0.0 and its state is marked dying; the next frame sweep
\* frees the state, and no frame invokes any of its callbacks.
C5_KillAllFor == [][KillStep("c1") /\ SweepStep]_vars

\* both runs of the owner were killed half way; their states wait for the sweep
C5_Witness ==
    /\ anims["a"].live = Null /\ anims["b"].live = Null
    /\ anims["a"].progress_cache = Zero /\ anims["b"].progress_cache = Zero
    /\ states[1].dying /\ states[2].dying /\ Len(active) = 2
    /\ obs[1].tick = 1 /\ obs[2].tick = 1
    /\ obs[1].on_finish = 0 /\ obs[1].on_cancel = 0

-----------------------------------------------------------------------------
(* SpecLive: one-leg runs left to the frames.  The timer keeps delivering  *)
(* frames while there is something to step, and the clock keeps advancing. *)

LiveChains ==
    { Observers \o << <<"duration_ms", 200>> >>,
      Observers \o << <<"on_update", Count>>, <<"delay_ms", 100>>, <<"duration_ms", 200>>,
                      <<"easing", "OutQuad">> >> }

\* Play early enough for the run to end before the clock stops
PlayInTime(h) ==
    /\ active = <<>>
    /\ anims[h].staging # NoSpec
    /\ clock + anims[h].staging.delay_ms + anims[h].staging.duration_ms <= MaxClock
    /\ DoPlay(h)

NextLive ==
    \/ \E calls \in LiveChains : Stage("a", calls)
    \/ PlayInTime("a")
    \/ DoTick
    \/ \E dt \in Dts : Advance(dt)

\* a frame would change the state: ENABLED <<DoTick>>_vars, written out
FrameDue ==
    /\ fault = "none"
    /\ LET W == TickManualOnce(World, 0)
       IN  ~W.oob /\ <<W.anims, W.states, W.active, W.sched, W.obs, W.fault, W.exc>>
                        # <<anims, states, active, sched, obs, fault, FALSE>>

\* weak fairness of the clock and of the frames: WF_vars(DoTick), with its
\* ENABLED written as FrameDue
SpecLive ==
    /\ Init /\ [][NextLive]_vars
    /\ WF_vars(\E dt \in Dts : Advance(dt))
    /\ ([]<>~FrameDue \/ []<><<DoTick>>_vars)

RunsOnce(s) ==
    /\ states[s].alloc = "live" /\ states[s].anim = "a"
    /\ states[s].spec.loop_count = 1 /\ ~states[s].spec.yoyo
    /\ states[s].spec.tick = Count /\ states[s].spec.on_finish = Count

Finished(s) ==
    /\ states[s].alloc = "freed" /\ ~InActive(active, s)
    /\ anims["a"].live = Null /\ Progress(World, "a") = One
    /\ obs[s].tick >= 1 /\ obs[s].on_finish = 1 /\ obs[s].on_cancel = 0

\* C6: a run with Loop(1), no yoyo, a live owner, never paused, and a tick
\* that always returns true ends under repeated frames with advancing time:
\* tick was invoked at least once, on_finish fired exactly once, on_cancel
\* never, the state is out of the active set, the handle is not live and
\* Progress() is 1.0.
C6_Terminates == \A s \in StateIds : RunsOnce(s) ~> Finished(s)

\* the delayed run has ended
C6_Witness ==
    /\ Finished(1) /\ anims["a"].last_spec.delay_ms = 100
    /\ obs[1].on_update >= 1 /\ obs[1].tick_val = Plain(One)

-----------------------------------------------------------------------------
(* SpecLoops: one handle, runs of one or two legs and a run whose tick     *)
(* asks to stop, left to the frames, with pauses.                          *)

LoopChains ==
    { Observers \o << <<"yoyo", TRUE>>, <<"loop_count", 1>>, <<"duration_ms", 200>> >>,
      Observers \o << <<"loop_count", 2>>, <<"duration_ms", 200>> >>,
      Observers \o << <<"loop_count", 1>>, <<"duration_ms", 300>> >>,
      << <<"tick", Veto>>, <<"on_finish", Count>>, <<"on_cancel", Count>>,
         <<"duration_ms", 200>> >> }

NextLoops ==
    \/ \E calls \in LoopChains : Stage("a", calls)
    \/ PlayIdle("a")
    \/ DoPause("a")
    \/ DoResume("a")
    \/ DoTick
    \/ \E dt \in Dts : Advance(dt)

SpecLoops == Init /\ [][NextLoops]_vars

\* the leg of run s has run its whole duration on the observer's stopwatch
LegOver(s) ==
    obs[s].leg_ms >= states[s].spec.delay_ms + Max(1, states[s].spec.duration_ms)

\* a frame steps run s, which ticks and goes on
Stepped(s) ==
    /\ states[s].alloc = "live" /\ ~states[s].paused /\ ~states[s].dying
    /\ states[s].spec.tick = Count
    /\ DoTick

YoyoOnce(s) == states[s].spec.yoyo /\ states[s].spec.loop_count = 1

YoyoOnceFrame(s) ==
    (Stepped(s) /\ YoyoOnce(s)) =>
        /\ Finishes(s) <=> (states[s].reverse /\ LegOver(s))
        /\ Finishes(s) => obs'[s].fwd_legs = 1 /\ obs'[s].rev_legs = 1
        /\ (~states[s].reverse /\ LegOver(s)) =>
               /\ states'[s].alloc = "live" /\ states'[s].reverse
               /\ states'[s].cycles = states[s].cycles
               /\ obs'[s].fwd_legs = 1 /\ obs'[s].rev_legs = 0
        /\ ~LegOver(s) => states'[s] = states[s]

\* the cycle counter as Step leaves it, before the sweep
CyclesAfterStep(s) == Step(World, s, clock).states[s].cycles

\* C11: a Yoyo(true).Loop(1) run performs exactly one forward leg and then
\* exactly one reverse leg before on_finish fires; the cycle counter is
\* decremented only at the end of a reverse leg, never at the end of a
\* forward leg.
C11_YoyoOnce ==
    /\ [](\A s \in StateIds :
            (states[s].alloc = "live" /\ states[s].spec.yoyo /\ fault = "none"
             /\ CyclesAfterStep(s) # states[s].cycles)
                => (states[s].reverse /\ LegOver(s)
                    /\ CyclesAfterStep(s) = states[s].cycles - 1))
    /\ [][\A s \in StateIds : YoyoOnceFrame(s)]_vars

\* the Yoyo(true).Loop(1) run has ended after its forward and its reverse leg
C11_Witness ==
    /\ anims["a"].live = Null /\ anims["a"].progress_cache = One
    /\ anims["a"].last_spec.yoyo /\ anims["a"].last_spec.loop_count = 1
    /\ obs[1].fwd_legs = 1 /\ obs[1].rev_legs = 1 /\ obs[1].on_finish = 1
    /\ obs[1].on_cancel = 0 /\ states[1].alloc = "freed"

LoopFrame(s) ==
    LET n == states[s].spec.loop_count IN
    (Stepped(s) /\ ~states[s].spec.yoyo /\ n >= 1) =>
        /\ obs'[s].fwd_legs = IF LegOver(s) THEN obs[s].fwd_legs + 1 ELSE obs[s].fwd_legs
        /\ obs'[s].rev_legs = 0
        /\ Finishes(s) <=> (LegOver(s) /\ obs[s].fwd_legs = n - 1)
        /\ obs'[s].fwd_legs < n => obs'[s].on_finish = 0
        /\ (LegOver(s) /\ ~Finishes(s)) =>
               /\ states'[s].alloc = "live"
               /\ states'[s].start_ms = sched'.manual_last_now
               /\ states'[s].elapsed_ms = 0
               /\ states'[s].cycles = states[s].cycles - 1
        /\ ~LegOver(s) => states'[s] = states[s]

\* C12: a run with Loop(n), n >= 1, and no yoyo plays exactly n legs: the leg
\* runs to its end exactly n times, on_finish fires at the n-th time and not
\* before, and between two legs start_ms is set to the time of the frame and
\* elapsed_ms to 0.
C12_LoopLegs == [][\A s \in StateIds : LoopFrame(s)]_vars

\* the Loop(2) run has ended after its second leg
C12_Witness ==
    /\ anims["a"].live = Null /\ anims["a"].progress_cache = One
    /\ ~anims["a"].last_spec.yoyo /\ anims["a"].last_spec.loop_count = 2
    /\ obs[1].fwd_legs = 2 /\ obs[1].on_finish = 1 /\ obs[1].on_cancel = 0
    /\ obs[1].tick = MaxCount /\ states[1].alloc = "freed"

\* the frame invokes the tick of run s, and the tick returns false
Vetoed(s) ==
    /\ states[s].alloc = "live" /\ states[s].spec.tick = Veto
    /\ DoTick
    /\ obs'[s].tick # obs[s].tick

\* C13: when the tick callback returns false the run ends as a natural
\* completion: on_finish fires exactly once, on_cancel does not fire, the
\* state is removed at the end of that frame and Progress() is 1.0.
C13_TickVeto ==
    [][\A s \in StateIds :
          Vetoed(s) =>
              /\ obs'[s].on_finish = 1 /\ obs'[s].on_cancel = 0
              /\ states'[s].alloc = "freed" /\ ~InActive(active', s)
              /\ anims'["a"].live = Null /\ Progress(WorldNext, "a") = One]_vars

-----------------------------------------------------------------------------
(* SpecOrphan: two handles of one owner, and the owner is destroyed while  *)
(* their runs are live.                                                    *)

\* Play on a handle whose owner is still there
PlayOwned(h) == OwnerOf(h) \in owners /\ PlayFirst(h)

NextOrphan ==
    \/ \E h \in {"a", "b"} : StageFirst(h)
    \/ \E h \in {"a", "b"} : PlayOwned(h)
    \/ DoPause("b")
    \/ DestroyOwner("c1")
    \/ DoTick
    \/ \E dt \in Dts : Advance(dt)

SpecOrphan == Init /\ [][NextOrphan]_vars

\* the frame that finds run s without its owner
OrphanFrame(s) ==
    (states[s].alloc = "live" /\ OwnerGone(World, s) /\ DoTick) =>
        /\ Seen(obs'[s]) = Seen(obs[s])
        /\ states'[s].alloc = "freed" /\ ~InActive(active', s)
        /\ \A h \in Handles :
               (anims[h].live = s /\ anims[h].exists) =>
                   anims'[h].live = Null /\ Progress(WorldNext, h) = Zero
        /\ fault' = "none"

\* a frame that comes after run s was freed
LaterFrame(s) ==
    (states[s].alloc = "freed" /\ DoTick) =>
        /\ states'[s].alloc = "freed" => Seen(obs'[s]) = Seen(obs[s])
        /\ ~InActive(active, s)
        /\ fault' = "none"

\* C14: when the owner of a live run is destroyed the next frame removes the
\* run without invoking on_update, tick, on_finish or on_cancel; no later
\* frame invokes a callback of that run; the handle is not live any more and
\* its Progress() is exactly 0.0; later frames do not touch the freed state.
C14_OwnerDestroyed == [][\A s \in StateIds : OrphanFrame(s) /\ LaterFrame(s)]_vars

\* both runs lost their owner half way, one of them paused; a frame has
\* removed them and another frame has followed
C14_Witness ==
    /\ "c1" \notin owners /\ active = <<>>
    /\ anims["a"].live = Null /\ anims["a"].progress_cache = Zero
    /\ anims["b"].live = Null /\ anims["b"].progress_cache = Zero
    /\ states[1].alloc = "freed" /\ states[2].alloc = "freed"
    /\ obs[1].tick = 1 /\ obs[2].tick = 1
    /\ obs[1].on_finish = 0 /\ obs[1].on_cancel = 0
    /\ obs[2].on_finish = 0 /\ obs[2].on_cancel = 0
    /\ sched.manual_last_now >= ClockStart + 300

-----------------------------------------------------------------------------
(* SpecThrow: a run with a callback that throws, next to a sibling run     *)
(* that only observes.                                                     *)

ThrowChains ==
    { << <<"tick", Call("Throw", "a")>>, <<"on_finish", Count>>, <<"on_cancel", Count>>,
         <<"duration_ms", 200>> >>,
      << <<"on_update", Call("Throw", "a")>>, <<"tick", Count>>, <<"on_finish", Count>>,
         <<"on_cancel", Count>>, <<"duration_ms", 200>> >>,
      << <<"tick", Count>>, <<"on_finish", Call("Throw", "a")>>, <<"on_cancel", Count>>,
         <<"duration_ms", 200>> >> }

\* the sibling: a yoyo round trip
SiblingChain ==
    Observers \o << <<"on_update", Count>>, <<"yoyo", TRUE>>, <<"loop_count", 2>>,
                    <<"duration_ms", 200>> >>

NextThrow ==
    \/ \E calls \in ThrowChains : anims["a"].last_spec = NoSpec /\ Stage("a", calls)
    \/ anims["b"].last_spec = NoSpec /\ Stage("b", SiblingChain)
    \/ \E h \in {"a", "b"} : PlayFirst(h)
    \/ DoPause("b")
    \/ DoTick
    \/ \E dt \in Dts : Advance(dt)

SpecThrow == Init /\ [][NextThrow]_vars

\* a callback of run s throws in this step
Throws(s) ==
    /\ states[s].alloc = "live"
    /\ \E cb \in {"on_update", "tick", "on_finish"} :
           /\ states[s].spec[cb].act = "Throw"
           /\ obs[s][cb] = 0 /\ obs'[s][cb] = 1

\* run s is stepped by the frame as it would be stepped on its own
SteppedAlone(s) ==
    LET W == Step(World, s, clock) IN
    /\ Seen(obs'[s]) = Seen(W.obs[s])
    /\ (~states[s].paused /\ IsSet(World, s, "tick")) => obs'[s].tick = Bump(obs[s].tick)
    /\ IF W.ret THEN states'[s] = W.states[s] /\ InActive(active', s)
       ELSE states'[s].alloc = "freed" /\ ~InActive(active', s)

ThrowFrame ==
    DoTick =>
        /\ fault' = "none"
        /\ \A s \in StateIds :
               /\ Throws(s) => states'[s].alloc = "freed" /\ ~InActive(active', s)
               /\ (states[s].alloc = "live" /\ states[s].anim = "b") => SteppedAlone(s)

\* C15: when a callback (on_update, tick or on_finish) of one state throws
\* during a frame, the exception does not leave RunFrame, only that state is
\* removed, and every other state of the active set is stepped exactly once
\* in that frame, its timing fields, cycle count and direction being what its
\* own step makes them.
C15_ThrowIsolated == [][ThrowFrame]_vars

\* the tick of the first run threw in its first frame; the sibling behind it
\* was stepped in that frame and has gone on to its reverse leg
C15_Witness ==
    /\ states[1].alloc = "freed" /\ anims["a"].live = Null
    /\ anims["a"].last_spec # NoSpec /\ anims["a"].last_spec.tick = Call("Throw", "a")
    /\ obs[1].tick = 1 /\ obs[1].on_finish = 0
    /\ active = <<2>> /\ anims["b"].live = 2 /\ states[2].reverse
    /\ states[2].start_ms = ClockStart + 200 /\ obs[2].fwd_legs = 1

-----------------------------------------------------------------------------
(* SpecFinalizeIn: a run whose tick or on_finish calls Animation::Finalize, *)
(* next to a sibling run.                                                  *)

FinalizeChains ==
    { << <<"tick", Call("Finalize", "a")>>, <<"on_finish", Count>>, <<"on_cancel", Count>>,
         <<"duration_ms", 200>> >>,
      << <<"tick", Count>>, <<"on_finish", Call("Finalize", "a")>>, <<"on_cancel", Count>>,
         <<"duration_ms", 200>> >> }

NextFinalizeIn ==
    \/ \E calls \in FinalizeChains : anims["a"].last_spec = NoSpec /\ Stage("a", calls)
    \/ anims["b"].last_spec = NoSpec /\ Stage("b", OwnerChain("b"))
    \/ \E h \in {"a", "b"} : PlayFirst(h)
    \/ DoTick
    \/ \E dt \in Dts : Advance(dt)

SpecFinalizeIn == Init /\ [][NextFinalizeIn]_vars

\* a tick or on_finish callback of some run calls Finalize() in this step
FinalizeCalled ==
    \E s \in StateIds, cb \in {"tick", "on_finish"} :
        /\ states[s].alloc = "live" /\ states[s].spec[cb].act = "Finalize"
        /\ obs[s][cb] = 0 /\ obs'[s][cb] = 1

\* C16: Finalize() called from inside a tick or on_finish callback fired
\* during a frame is safe: the frame in progress never reads, steps or frees
\* a state that Finalize has freed, never indexes the active set out of
\* range, and ends with an empty active set and a stopped timer.
C16_FinalizeInFrame ==
    [][(DoTick /\ FinalizeCalled) =>
           /\ fault' = "none"
           /\ active' = <<>>
           /\ ~sched'.running /\ sched'.ticker = {}]_vars

-----------------------------------------------------------------------------
(* SpecSiblings: a run whose tick or on_finish cancels itself or its       *)
(* sibling, or starts a new run, next to a sibling that only observes.     *)

SiblingChains ==
    { << <<"tick", Call("Cancel", "b")>>, <<"on_finish", Count>>, <<"on_cancel", Count>>,
         <<"duration_ms", 200>> >>,
      << <<"tick", Call("Cancel", "a")>>, <<"on_finish", Count>>, <<"on_cancel", Count>>,
         <<"duration_ms", 200>> >>,
      << <<"tick", Count>>, <<"on_finish", Call("Spawn", "z")>>, <<"on_cancel", Count>>,
         <<"duration_ms", 200>> >>,
      << <<"tick", Count>>, <<"on_finish", Call("Cancel", "b")>>, <<"on_cancel", Count>>,
         <<"duration_ms", 200>> >> }

NextSiblings ==
    \/ \E calls \in SiblingChains : anims["a"].last_spec = NoSpec /\ Stage("a", calls)
    \/ anims["b"].last_spec = NoSpec /\ Stage("b", OwnerChain("b"))
    \/ \E h \in {"a", "b"} : PlayFirst(h)
    \/ DoTick
    \/ \E dt \in Dts : Advance(dt)

SpecSiblings == Init /\ [][NextSiblings]_vars

\* where s stands in the active set (0: nowhere)
IndexOf(seq, s) ==
    IF InActive(seq, s) THEN CHOOSE i \in 1..Len(seq) : seq[i] = s ELSE 0

\* the callback cb of run s1 cancels the run of handle h in this step
CancelsIn(s1, cb, h) ==
    /\ states[s1].alloc = "live" /\ ~states[s1].dying
    /\ states[s1].spec[cb] = Call("Cancel", h)
    /\ obs[s1][cb] = 0 /\ obs'[s1][cb] = 1

\* run s is cancelled in this frame by a run that is stepped before it
CancelledBeforeTurn(s) ==
    \E s1 \in StateIds \ {s}, cb \in {"tick", "on_finish"}, h \in Handles :
        /\ anims[h].live = s /\ CancelsIn(s1, cb, h)
        /\ IndexOf(active, s1) < IndexOf(active, s)

\* run s is cancelled in this frame at its own turn or after it
CancelledLater(s) ==
    \E s1 \in StateIds, cb \in {"tick", "on_finish"}, h \in Handles :
        /\ anims[h].live = s /\ CancelsIn(s1, cb, h)
        /\ IndexOf(active, s1) >= IndexOf(active, s)

\* every run of the active set that is not cancelled before its turn is
\* stepped once, the others not at all
OneStepEach ==
    \A s \in StateIds :
        (states[s].alloc = "live" /\ InActive(active, s) /\ ~states[s].dying
         /\ IsSet(World, s, "tick") /\ obs[s].tick < MaxCount - 1) =>
            obs'[s].tick = IF CancelledBeforeTurn(s) THEN obs[s].tick ELSE obs[s].tick + 1

\* the run a callback started is registered and has had its first tick
SpawnedRuns ==
    \A s \in StateIds :
        (states[s].alloc = "live" /\ states[s].spec.on_finish = Call("Spawn", "z")
         /\ obs[s].on_finish = 0 /\ obs'[s].on_finish = 1) =>
            LET n == anims'["z"].live IN
            /\ n # Null /\ states'[n].alloc = "live" /\ ~states'[n].dying
            /\ InActive(active', n) /\ IndexOf(active', n) = Len(active')
            /\ obs'[n].tick = 1 /\ obs'[n].tick_val = Plain(Zero)
            /\ sched'.running

\* what the frame leaves in the active set is live, there once, and not dying
SweptClean ==
    \A i \in 1..Len(active') :
        /\ states'[active'[i]].alloc = "live" /\ ~states'[active'[i]].dying
        /\ \A j \in 1..Len(active') : active'[j] = active'[i] => j = i

Removed(s) ==
    \/ states[s].dying
    \/ CancelledBeforeTurn(s)
    \/ obs[s].on_finish = 0 /\ obs'[s].on_finish = 1

\* the sweep removes the runs that were dying at their turn and those their
\* step ended; a run cancelled at its turn or after it stays, marked dying and
\* detached from its handle
SweptDeferred ==
    \A s \in StateIds :
        (states[s].alloc = "live" /\ InActive(active, s) /\ IsSet(World, s, "on_finish")) =>
            IF Removed(s)
            THEN states'[s].alloc = "freed" /\ ~InActive(active', s)
            ELSE /\ states'[s].alloc = "live"
                 /\ Cardinality({i \in 1..Len(active') : active'[i] = s}) = 1
                 /\ states'[s].dying <=> CancelledLater(s)
                 /\ states'[s].dying =>
                        /\ states'[s].anim = "-"
                        /\ \A h \in Handles : anims'[h].live # s

\* a run that is dying when the frame begins is removed by it, unstepped
DyingSwept ==
    \A s \in StateIds :
        (states[s].alloc = "live" /\ states[s].dying) =>
            /\ states'[s].alloc = "freed" /\ ~InActive(active', s)
            /\ Seen(obs'[s]) = Seen(obs[s])

-----------------------------------------------------------------------------
(* SpecFps: SetFPS with any argument, between and inside the frames of the *)
(* timer.  The event loop keeps delivering the queued timer callbacks and  *)
(* the clock keeps advancing.                                              *)

FpsArgs == {0 - 7, 0, 1, 15, 240, 241, 1000}

FpsChains ==
    { Observers \o << <<"duration_ms", 200>> >>,
      << <<"tick", Call("SetFPS", "a")>>, <<"on_finish", Count>>, <<"on_cancel", Count>>,
         <<"duration_ms", 200>> >> }

NextFps ==
    \/ \E calls \in FpsChains : Stage("a", calls)
    \/ PlayInTime("a")
    \/ \E f \in FpsArgs : DoSetFPS(f)
    \/ DoTimer
    \/ \E dt \in Dts : Advance(dt)

\* a queued timer callback would change the state: ENABLED <<DoTimer>>_vars,
\* written out
TimerDue ==
    /\ fault = "none"
    /\ \E id \in sched.ticker :
           LET W == TickTimer([World EXCEPT !.sched.ticker = @ \ {id}], id)
           IN  ~W.oob /\ <<W.anims, W.states, W.active, W.sched, W.obs, W.fault, W.exc>>
                            # <<anims, states, active, sched, obs, fault, FALSE>>

\* weak fairness of the clock and of the timer: WF_vars(DoTimer), with its
\* ENABLED written as TimerDue
SpecFps ==
    /\ Init /\ [][NextFps]_vars
    /\ WF_vars(\E dt \in Dts : Advance(dt))
    /\ ([]<>~TimerDue \/ []<><<DoTimer>>_vars)

\* clamp(f, 1, 240), written out
Clamped(f) == IF f < 1 THEN 1 ELSE IF f > 240 THEN 240 ELSE f

SetFpsStep(f) ==
    DoSetFPS(f) =>
        /\ GetFPS(WorldNext) = Clamped(f)
        /\ sched'.step_ms = Max(1, 1000 \div Clamped(f))

\* C18: for every integer f, zero, negative and above 240 included, GetFPS()
\* after SetFPS(f) is clamp(f, 1, 240), so 1 <= GetFPS() <= 240, and the frame
\* interval step_ms = max(1, 1000 / GetFPS()) is at least 1 ms.
C18_FpsClamp ==
    /\ [](/\ 1 <= GetFPS(World) /\ GetFPS(World) <= 240
          /\ sched.step_ms = Max(1, 1000 \div GetFPS(World)) /\ sched.step_ms >= 1)
    /\ [][\A f \in FpsArgs : SetFpsStep(f)]_vars

\* SetFPS(1000) was called while a run was live
C18_Witness ==
    /\ sched.fps = 240 /\ sched.step_ms = 4
    /\ anims["a"].live = 1 /\ obs[1].tick = 1 /\ sched.running

\* the timer is armed whenever a state needs it
Armed ==
    (\E i \in 1..Len(active) : NeedsTick(World, active[i]))
        => sched.running /\ "valid" \in sched.ticker

\* SetFPS called by the application, between frames
SetFpsOutside(f) ==
    DoSetFPS(f) =>
        /\ active' = active /\ states' = states /\ anims' = anims /\ obs' = obs
        /\ Armed'

\* this frame invokes the tick of s, which calls SetFPS
SetFpsInFrame(s) ==
    /\ DoTimer /\ InActive(active, s)
    /\ states[s].spec.tick = Call("SetFPS", "a")
    /\ obs[s].tick = 0 /\ obs'[s].tick = 1

\* the only leg of s is over at this frame
LastFrame(s) == clock - states[s].start_ms >= states[s].spec.duration_ms

SetFpsInside(s) ==
    SetFpsInFrame(s) =>
        /\ fault' = "none"
        /\ GetFPS(WorldNext) = 30 /\ sched'.step_ms = 33
        /\ Armed'
        /\ IF LastFrame(s)
           THEN /\ states'[s].alloc = "freed" /\ ~InActive(active', s)
                /\ obs'[s].on_finish = 1 /\ obs'[s].on_cancel = 0
           ELSE /\ states'[s] = states[s]
                /\ Cardinality({i \in 1..Len(active') : active'[i] = s}) = 1

RunsFps(s) ==
    /\ states[s].alloc = "live" /\ states[s].anim = "a"
    /\ states[s].spec.on_finish = Count

FinishedFps(s) ==
    /\ states[s].alloc = "freed" /\ ~InActive(active, s)
    /\ obs[s].on_finish = 1 /\ obs[s].on_cancel = 0

\* C19: SetFPS while runs are live, called between frames or by a callback
\* inside a timer-driven frame, neither removes nor duplicates a state of the
\* active set, leaves start_ms, elapsed_ms, paused, reverse and cycles of
\* every state as they are, and leaves the timer armed with the new interval:
\* every live finite run still reaches on_finish.
C19_SetFpsLive ==
    /\ []Armed
    /\ [][\A f \in FpsArgs : SetFpsOutside(f)]_vars
    /\ [][\A s \in StateIds : SetFpsInside(s)]_vars
    /\ \A s \in StateIds : RunsFps(s) ~> FinishedFps(s)

\* the tick of the run called SetFPS(30) in a frame of the timer, the timer
\* went on and the run has finished
C19_Witness ==
    /\ FinishedFps(1) /\ obs[1].tick >= 2
    /\ anims["a"].last_spec # NoSpec /\ anims["a"].last_spec.tick = Call("SetFPS", "a")
    /\ sched.fps = 30 /\ sched.step_ms = 33

-----------------------------------------------------------------------------
(* SpecReuse: one handle, configured, played, paused, cancelled and        *)
(* configured again with another chain of setters.                         *)

ReuseChains ==
    { << <<"tick", Count>>, <<"on_update", Count>>, <<"on_finish", Count>>,
         <<"on_cancel", Call("SetFPS", "a")>>, <<"easing", "OutQuad">>,
         <<"delay_ms", 100>>, <<"yoyo", TRUE>>, <<"loop_count", 4>>,
         <<"duration_ms", 300>> >>,
      << <<"duration_ms", 200>>, <<"easing", NoEasing>>, <<"tick", Count>> >>,
      << <<"duration_ms", 300>>, <<"tick", Count>>, <<"on_start", Count>>,
         <<"loop_count", 0 - 1>> >> }

NextReuse ==
    \/ \E calls \in ReuseChains : Stage("a", calls)
    \/ PlayIdle("a")
    \/ DoPause("a")
    \/ DoCancel("a")
    \/ DoTick
    \/ \E dt \in Dts : Advance(dt)

SpecReuse == Init /\ [][NextReuse]_vars

\* the handle as Cancel() leaves it: no run, no staging, the spec of the run
\* kept for Replay()
AtRest(h) ==
    /\ anims[h].live = Null /\ anims[h].staging = NoSpec
    /\ anims[h].last_spec # NoSpec

\* Cancel() of a run, playing or paused
CancelStep(h) ==
    LET s == anims[h].live IN
    (DoCancel(h) /\ s # Null) =>
        /\ fault' = "none" /\ AtRest(h)'
        /\ states'[s].alloc = "freed" /\ ~InActive(active', s)

\* a default Staging with the fields the calls name set to what they say
RECURSIVE Staged(_, _)
Staged(spec, calls) ==
    IF calls = <<>> THEN spec
    ELSE Staged([spec EXCEPT ![Head(calls)[1]] = Head(calls)[2]], Tail(calls))

\* the setters called on the handle Cancel() left
StageStep(h, calls) ==
    (AtRest(h) /\ Stage(h, calls)) =>
        /\ fault' = "none" /\ anims'[h].live = Null
        /\ anims'[h].staging = Staged(DefaultStaging, calls)

\* Play() after the setters
PlayStep(h) ==
    LET spec == anims[h].staging
        s == anims'[h].live
    IN  (anims[h].live = Null /\ spec # NoSpec /\ anims[h].last_spec # NoSpec
         /\ PlayIdle(h)) =>
            /\ fault' = "none" /\ s # Null
            /\ states[s].alloc # "live" /\ states'[s].alloc = "live"
            /\ active' = <<s>> /\ states'[s].anim = h
            /\ ~states'[s].paused /\ ~states'[s].reverse /\ ~states'[s].dying
            /\ states'[s].elapsed_ms = 0 /\ states'[s].start_ms = clock
            /\ states'[s].cycles =
                   (IF spec.loop_count < 0 THEN INT_MAX
                    ELSE IF spec.yoyo THEN (spec.loop_count + 1) \div 2
                    ELSE spec.loop_count)
            /\ states'[s].spec = spec
            /\ \E calls \in ReuseChains : spec = Staged(DefaultStaging, calls)
            /\ Progress(WorldNext, h) = Zero /\ anims'[h].progress_cache = Zero
            /\ obs'[s] = [NoObs EXCEPT !.on_start = IF spec.on_start = Count THEN 1 ELSE 0]

\* C20: after Cancel(), of a playing or of a paused run, any fluent setter
\* followed by Play() on the same handle succeeds and gives a fresh run: a new
\* state is registered, not paused, running forward, with elapsed_ms = 0 and
\* cycles computed from the newly staged spec, the progress cache is 0.0, and
\* no setting of the cancelled run is carried over but those staged again.
C20_ReuseAfterCancel ==
    /\ [][CancelStep("a")]_vars
    /\ [][\A calls \in ReuseChains : StageStep("a", calls)]_vars
    /\ [][PlayStep("a")]_vars

\* the yoyo run was cancelled (its on_cancel set the frame rate) and the run
\* played after Duration(200).Ease(..)(tick) is being ticked
C20_Witness ==
    /\ sched.fps = 30 /\ anims["a"].live = 1
    /\ states[1].spec = Staged(DefaultStaging,
                               << <<"duration_ms", 200>>, <<"easing", NoEasing>>,
                                  <<"tick", Count>> >>)
    /\ states[1].start_ms > ClockStart /\ states[1].cycles = 1
    /\ ~states[1].paused /\ ~states[1].reverse /\ obs[1].tick = 1
    /\ obs[1].on_cancel = 0 /\ obs[1].on_update = 0

-----------------------------------------------------------------------------
(* SpecReplay: a handle whose setters and Replay are called at any time,   *)
(* with or without a live run, next to a handle that plays a default run.  *)

TickOnly == << <<"tick", Count>> >>

ReplayChains ==
    { << <<"tick", Count>>, <<"on_finish", Count>>, <<"on_cancel", Call("SetFPS", "a")>>,
         <<"duration_ms", 200>>, <<"easing", "OutQuad">>, <<"yoyo", TRUE>>,
         <<"loop_count", 1>> >>,
      TickOnly }

\* Play on a handle that has no run
PlayRest(h) == anims[h].live = Null /\ DoPlay(h)

NextReplay ==
    \/ \E calls \in ReplayChains : Configure("a", calls)
    \/ PlayRest("a")
    \/ PlayFirst("b")
    \/ DoReplay("a")
    \/ DoTick
    \/ \E dt \in Dts : Advance(dt)

SpecReplay == Init /\ [][NextReplay]_vars

\* since the last Play() only the tick setter was called
OnlyTickStaged(h) == anims[h].staging = Staged(DefaultStaging, TickOnly)

\* C22: Replay() re-runs the most recently committed spec: after a run played
\* with Duration(d), Yoyo(y), Loop(n) and an easing, setting only a new tick
\* callback and calling Replay() gives a run whose duration, yoyo flag, loop
\* count and easing are those of the spec committed before.
C22_ReplayLastSpec ==
    [][(DoReplay("a") /\ anims["a"].last_spec # NoSpec /\ OnlyTickStaged("a")) =>
          LET n == anims'["a"].live
              last == anims["a"].last_spec
          IN  /\ n # Null
              /\ states'[n].spec.duration_ms = last.duration_ms
              /\ states'[n].spec.yoyo = last.yoyo
              /\ states'[n].spec.loop_count = last.loop_count
              /\ states'[n].spec.easing = last.easing]_vars

\* the states bound to handle h
BoundTo(sts, h) == {x \in StateIds : sts[x].alloc = "live" /\ sts[x].anim = h}

ReplayLive(h) ==
    LET s == anims[h].live
        n == anims'[h].live
    IN  (DoReplay(h) /\ s # Null) =>
            /\ fault' = "none"
            /\ sched'.fps = sched.fps            \* on_cancel would set the frame rate
            /\ n # Null /\ states'[n].alloc = "live" /\ states'[n].anim = h
            /\ states'[n].start_ms = clock /\ ~states'[n].paused
            /\ obs'[n] = NoObs
            /\ Cardinality({i \in 1..Len(active') : active'[i] = n}) = 1
            /\ Len(active') = Len(active)
            /\ BoundTo(states', h) \ {n} = BoundTo(states, h) \ {s}
            /\ n # s => /\ states'[s].alloc = "freed" /\ ~InActive(active', s)
                        /\ Seen(obs'[s]) = Seen(obs[s])

\* nothing is invoked for a State that was deleted
FreedSilent ==
    \A s \in StateIds :
        (states[s].alloc = "freed" /\ states'[s].alloc = "freed") => Seen(obs'[s]) = Seen(obs[s])

NothingStaged(h) ==
    anims[h].last_spec = NoSpec /\ anims[h].staging \in {NoSpec, DefaultStaging}

\* C24: Play() with nothing staged and no replay cache is a silent no-op: no
\* state is created or registered, no callback fires, the timer is as it was
\* and the progress cache is unchanged.
C24_PlayNothing ==
    [][(PlayRest("a") /\ NothingStaged("a")) =>
          UNCHANGED <<anims, states, active, sched, obs>>]_vars

-----------------------------------------------------------------------------
(* SpecHandle: one handle on which every method is called at any time.     *)

NextHandle ==
    \/ \E calls \in ReplayChains : Configure("a", calls)
    \/ PlayRest("a")
    \/ DoReplay("a")
    \/ DoPause("a")
    \/ DoResume("a")
    \/ DoStop("a")
    \/ DoCancel("a")
    \/ DoReset("a")
    \/ DoTick
    \/ \E dt \in Dts : Advance(dt)

SpecHandle == Init /\ [][NextHandle]_vars

\* C21: after Reset(), whatever setters, Play, Pause or Cancel came before,
\* the handle is not live, Progress() is exactly 0.0 and the pending stage is
\* a fresh default-initialised spec, as on a newly constructed handle, so that
\* a Play() without setters runs with the defaults and with nothing that was
\* staged before the Reset.
C21_ResetFresh ==
    [][DoReset("a") =>
          /\ anims'["a"].live = Null
          /\ Progress(WorldNext, "a") = Zero
          /\ anims'["a"].staging = DefaultStaging]_vars

HasStage(h) == anims[h].staging # NoSpec
HasLive(h) == anims[h].live # Null

\* C25 as stated: in every reachable state a handle holds exactly one of a
\* pending staged spec and a live reference to a State, never both.
C25_StageXorLive == [](HasStage("a") # HasLive("a"))

\* Play() and Replay() move the pending spec into the run
Commits(h) ==
    (PlayRest(h) \/ DoReplay(h)) => (~HasStage(h)' /\ HasLive(h)')

\* both are held only once a setter is called during a run
BothBySetter(h) ==
    (~(HasStage(h) /\ HasLive(h)) /\ (HasStage(h) /\ HasLive(h))') =>
        (HasLive(h) /\ \E calls \in ReplayChains : Configure(h, calls))

\* neither is held only once a run has ended
NeitherByEnd(h) ==
    ((HasStage(h) \/ HasLive(h)) /\ ~(HasStage(h) \/ HasLive(h))') =>
        (HasLive(h) /\ ~HasStage(h) /\ (DoTick \/ DoStop(h) \/ DoCancel(h)))

\* a live reference is to a State that is allocated, bound to the handle and
\* registered
LiveRef(h) ==
    HasLive(h) =>
        LET s == anims[h].live
        IN  states[s].alloc = "live" /\ states[s].anim = h /\ InActive(active, s)

\* C25, amended: a handle holds at most one pending staged spec and at most
\* one live reference, and the live reference is to a registered State bound
\* to it.  Play() and Replay() move the pending spec into the run: right after
\* them the handle holds a live reference and no pending spec.  It holds both
\* only after a setter was called during the run, and neither only after the
\* run ended (finish, Stop, Cancel) with no setter called since Play().
C25_StageThenLive ==
    /\ []LiveRef("a")
    /\ [][Commits("a")]_vars
    /\ [][BothBySetter("a")]_vars
    /\ [][NeitherByEnd("a")]_vars

\* the tick setter was called during the run, which then was ticked: the
\* handle holds a pending spec and a live reference at once
C25_Witness ==
    /\ anims["a"].staging = Staged(DefaultStaging, TickOnly)
    /\ HasLive("a") /\ obs[anims["a"].live].tick >= 1
    /\ anims["a"].last_spec # NoSpec /\ anims["a"].last_spec.yoyo

-----------------------------------------------------------------------------
(* SpecProgress: one handle with delayed, yoyo and zero-length runs, read  *)
(* at any time: playing, paused, after Stop and after Cancel.              *)

ProgressChains ==
    { Observers \o << <<"delay_ms", 200>>, <<"duration_ms", 300>> >>,
      Observers \o << <<"yoyo", TRUE>>, <<"loop_count", 2>>, <<"duration_ms", 200>> >>,
      << <<"tick", Count>>, <<"duration_ms", 0>> >>,
      << <<"tick", Count>>, <<"duration_ms", 0 - 5>> >> }

NextProgress ==
    \/ \E calls \in ProgressChains : Stage("a", calls)
    \/ PlayIdle("a")
    \/ DoPause("a")
    \/ DoResume("a")
    \/ DoStop("a")
    \/ DoCancel("a")
    \/ DoTick
    \/ \E dt \in Dts : Advance(dt)

SpecProgress == Init /\ [][NextProgress]_vars

\* the fraction p is a number of [0.0, 1.0]
InUnit(p) == p[2] > 0 /\ 0 <= p[1] /\ p[1] <= p[2]

\* C26: in every reachable state, Progress() of every handle, live or not, is
\* in [0.0, 1.0]: in the delay window, while paused, across leg boundaries,
\* for a duration <= 0 (taken as 1 ms) and for every snapshot written to the
\* progress cache.
C26_ProgressBounds ==
    \A h \in Handles : InUnit(Progress(World, h)) /\ InUnit(anims[h].progress_cache)

\* a run with Duration(-5), played 100 ms ago and not yet stepped: Progress()
\* is 1.0
C26_Witness ==
    /\ anims["a"].live = 1 /\ states[1].spec.duration_ms < 0
    /\ clock > states[1].start_ms /\ obs[1].tick = 0
    /\ Progress(World, "a") = One

-----------------------------------------------------------------------------
(* SpecFinalize: two handles with a run each, and Animation::Finalize      *)
(* called between the frames, at any time and any number of times.         *)

NextFinalize ==
    \/ Stage("a", OwnerChain("a"))
    \/ StageFirst("b")
    \/ PlayRest("a")
    \/ PlayFirst("b")
    \/ DoPause("b")
    \/ DoFinalize
    \/ DoTick
    \/ \E dt \in Dts : Advance(dt)

SpecFinalize == Init /\ [][NextFinalize]_vars

\* the scheduler as Finalize() leaves it: as constructed, but for the frame rate
Finalized ==
    /\ active = <<>> /\ ~sched.running /\ sched.ticker = {}
    /\ sched = [FreshSched EXCEPT !.fps = sched.fps, !.step_ms = sched.step_ms]

FinalizeStep ==
    DoFinalize =>
        /\ fault' = "none" /\ Finalized'
        /\ \A h \in Handles :
               IF anims[h].live # Null
               THEN /\ anims'[h].live = Null
                    /\ Progress(WorldNext, h) = Progress(World, h)
                    /\ anims'[h] = [anims[h] EXCEPT !.live = Null,
                                                    !.progress_cache = Progress(World, h)]
               ELSE anims'[h] = anims[h]
        /\ \A s \in StateIds :
               /\ Seen(obs'[s]) = Seen(obs[s])
               /\ states[s].alloc = "live" => states'[s].alloc = "freed"
               /\ states[s].alloc # "live" => states'[s] = states[s]
        /\ active = <<>> => UNCHANGED <<anims, states, active, obs>>
        /\ Finalized => UNCHANGED vars

\* Play() once Finalize() was called
PlayFinalized(h) ==
    (Finalized /\ PlayRest(h)) =>
        LET n == anims'[h].live
        IN  /\ fault' = "none" /\ n # Null /\ active' = <<n>>
            /\ states'[n].alloc = "live" /\ states'[n].anim = h
            /\ states'[n].start_ms = clock
            /\ sched'.running /\ sched'.ticker = {"valid"}

\* C27: after Finalize() called outside a frame the active set is empty and
\* the timer is stopped; every handle that was live is not live and its
\* Progress() is its forward-time progress at the call; no on_finish and no
\* on_cancel fired, and no callback of a run that was live is invoked by a
\* later frame.  Finalize() with no active state and a second Finalize()
\* change nothing, and a later Play() registers and runs as usual.
C27_Finalize ==
    /\ [][FinalizeStep]_vars
    /\ [][FreedSilent]_vars
    /\ [][PlayFinalized("a")]_vars

\* the run of b was finalized part of its way, and the run a played
\* afterwards has been stepped by a frame
C27_Witness ==
    /\ anims["b"].live = Null /\ anims["b"].progress_cache \notin {Zero, One}
    /\ anims["a"].live # Null /\ obs[anims["a"].live].tick >= 1
    /\ \A s \in StateIds : obs[s].on_cancel = 0

-----------------------------------------------------------------------------
(* SpecDestroy: a handle that is destroyed during its run, by the          *)
(* application or by its own on_finish, next to a sibling run.             *)

DestroyChains ==
    { Observers \o << <<"duration_ms", 200>> >>,
      << <<"tick", Count>>, <<"on_finish", Call("Destroy", "a")>>, <<"on_cancel", Count>>,
         <<"duration_ms", 200>> >> }

NextDestroy ==
    \/ \E calls \in DestroyChains : Stage("a", calls)
    \/ StageFirst("b")
    \/ PlayRest("a")
    \/ PlayFirst("b")
    \/ DoPause("a")
    \/ DoDestroy("a")
    \/ DoTick
    \/ \E dt \in Dts : Advance(dt)

SpecDestroy == Init /\ [][NextDestroy]_vars

\* the handle is destroyed between frames while its run is live
DestroyLive(h) ==
    LET s == anims[h].live IN
    (DoDestroy(h) /\ s # Null) =>
        /\ fault' = "none" /\ ~anims'[h].exists
        /\ Seen(obs'[s]) = Seen(obs[s])
        /\ states'[s].alloc = "freed" /\ ~InActive(active', s)

\* on_finish of s, fired by this frame, destroys the handle of s
DestroyInFinish(s) ==
    (/\ DoTick /\ states[s].alloc = "live" /\ states[s].anim # "-"
     /\ states[s].spec.on_finish = Call("Destroy", states[s].anim)
     /\ obs[s].on_finish = 0 /\ obs'[s].on_finish = 1) =>
        /\ fault' = "none" /\ ~anims'[states[s].anim].exists
        /\ obs'[s].on_cancel = 0
        /\ states'[s].alloc = "freed" /\ ~InActive(active', s)
        /\ \A h \in Handles \ {states[s].anim} : anims'[h].exists = anims[h].exists

\* no State refers to a handle that is gone, and nothing was written to one
NoDangling ==
    /\ fault = "none"
    /\ \A s \in StateIds :
           (states[s].alloc = "live" /\ states[s].anim # "-") => anims[states[s].anim].exists
    /\ \A h \in Handles : ~anims[h].exists => anims[h].live = Null

\* a destroyed handle is never written again
DestroyedKept ==
    \A h \in Handles : ~anims[h].exists => anims'[h] = anims[h]

\* C28: destroying a handle while its run is live detaches silently:
\* on_cancel and on_finish are not fired by the destruction, the state's
\* back-reference to the handle is nulled before the handle is gone and the
\* state is removed or marked dying, so that no later frame writes to the
\* destroyed handle; also when the handle is destroyed from inside its own
\* on_finish during a frame.
C28_DestroySilent ==
    /\ []NoDangling
    /\ [][DestroyLive("a")]_vars
    /\ [][\A s \in StateIds : DestroyInFinish(s)]_vars
    /\ [][DestroyedKept]_vars
    /\ [][FreedSilent]_vars

\* the handle was destroyed by its own on_finish in a frame that also stepped
\* the run of b, and a later frame has ended b's run
C28_Witness ==
    /\ ~anims["a"].exists /\ anims["a"].last_spec # NoSpec
    /\ anims["a"].last_spec.on_finish = Call("Destroy", "a")
    /\ \E s \in StateIds : /\ states[s].alloc = "freed"
                           /\ obs[s].on_finish = 1 /\ obs[s].on_cancel = 0
                           /\ obs[s].on_update = 0 /\ obs[s].fwd_legs = 1
    /\ anims["b"].live = Null /\ anims["b"].progress_cache = One
    /\ fault = "none"

-----------------------------------------------------------------------------
(* SpecForever: one handle with an endless run, Loop(-1) with and without  *)
(* yoyo, and every call that can end it.                                   *)

ForeverChains ==
    { Observers \o << <<"loop_count", 0 - 1>>, <<"duration_ms", 200>> >>,
      Observers \o << <<"yoyo", TRUE>>, <<"loop_count", 0 - 1>>, <<"duration_ms", 200>> >> }

NextForever ==
    \/ \E calls \in ForeverChains : anims["a"].last_spec = NoSpec /\ Stage("a", calls)
    \/ PlayFirst("a")
    \/ DoStop("a")
    \/ DoCancel("a")
    \/ DoReset("a")
    \/ anims["a"].live # Null /\ DoReplay("a")
    \/ DoKillAllFor("c1")
    \/ DoFinalize
    \/ DoDestroy("a")
    \/ DoTick
    \/ \E dt \in Dts : Advance(dt)

SpecForever == Init /\ [][NextForever]_vars

\* s is an endless run of a handle
Endless(s) ==
    /\ states[s].alloc = "live" /\ ~states[s].dying /\ states[s].anim # "-"
    /\ states[s].spec.loop_count < 0

\* a frame leaves an endless run where it is
ForeverFrame(s) ==
    (DoTick /\ Endless(s)) =>
        /\ fault' = "none" /\ Endless(s)'
        /\ Cardinality({i \in 1..Len(active') : active'[i] = s}) = 1
        /\ anims'[states[s].anim].live = s
        /\ states'[s].cycles = INT_MAX
        /\ obs'[s].on_finish = 0 /\ obs'[s].on_cancel = 0
        /\ obs'[s].tick = Bump(obs[s].tick)

\* the calls the claim names
EndedByNamed ==
    \/ DoStop("a") \/ DoCancel("a") \/ DoKillAllFor("c1") \/ DoFinalize \/ DoDestroy("a")

\* C29 as stated: a run with loop_count = -1, with or without yoyo, whose
\* owner stays alive and whose tick returns true never fires on_finish in a
\* frame and is never removed from the active set by frames; it ends only
\* through Stop, Cancel, KillAllFor, Finalize or the destruction of the handle.
C29_ForeverNamed ==
    /\ [][\A s \in StateIds : ForeverFrame(s)]_vars
    /\ [][\A s \in StateIds : (Endless(s) /\ ~Endless(s)') => EndedByNamed]_vars

\* C29, amended: a run with loop_count = -1, with or without yoyo, whose
\* owner stays alive and whose tick returns true never fires on_finish in a
\* frame and is never removed from the active set by frames: its cycle
\* counter stays at INT_MAX.  It ends only through Stop, Cancel, Reset,
\* Replay, KillAllFor, Finalize or the destruction of the handle.
C29_Forever ==
    /\ [][\A s \in StateIds : ForeverFrame(s)]_vars
    /\ [][\A s \in StateIds :
            (Endless(s) /\ ~Endless(s)') =>
                (EndedByNamed \/ DoReset("a") \/ DoReplay("a"))]_vars

\* an endless yoyo run that has gone forth and back and forth again and is
\* still registered when the clock stops
C29_Witness ==
    /\ clock = MaxClock /\ Endless(1) /\ states[1].spec.yoyo
    /\ obs[1].fwd_legs >= 2 /\ obs[1].rev_legs >= 1
    /\ obs[1].on_finish = 0 /\ active = <<1>>

-----------------------------------------------------------------------------
(* The order of the callbacks within a frame.  A callback that throws ends *)
(* Step where it stands (RunFrame catches and removes the run), so what    *)
(* was invoked before it and what was not shows in the observers.          *)

OrderChains ==
    { Observers \o << <<"on_update", Count>>, <<"yoyo", TRUE>>, <<"duration_ms", 200>>,
                      <<"easing", "OutQuad">> >>,
      Observers \o << <<"delay_ms", 200>>, <<"duration_ms", 100>> >>,
      << <<"tick", Call("Throw", "a")>>, <<"on_update", Count>>, <<"on_finish", Count>>,
         <<"duration_ms", 0>> >>,
      << <<"on_update", Call("Throw", "a")>>, <<"tick", Count>>, <<"on_finish", Count>>,
         <<"duration_ms", 0>> >>,
      << <<"on_finish", Call("Throw", "a")>>, <<"tick", Count>>, <<"on_update", Count>>,
         <<"duration_ms", 100>> >>,
      << <<"tick", Veto>>, <<"on_update", Count>>, <<"on_finish", Count>>,
         <<"duration_ms", 0>> >> }

NextOrder ==
    \/ \E calls \in OrderChains : Stage("a", calls)
    \/ PlayIdle("a")
    \/ DoPause("a")
    \/ DoResume("a")
    \/ DoTick
    \/ \E dt \in Dts : Advance(dt)

SpecOrder == Init /\ [][NextOrder]_vars

\* run s is registered and the next frame calls its Step
InFrame(s) ==
    /\ states[s].alloc = "live" /\ InActive(active, s)
    /\ ~states[s].dying /\ ~states[s].paused /\ ~OwnerGone(World, s)

\* the frame at the current clock passes the delay gate of run s
PastGate(s) == Local(World, s, clock) >= states[s].spec.delay_ms

\* the leg progress and the eased value of the frame at the current clock
FrameLeg(s) ==
    ClampFrac(Local(World, s, clock) - states[s].spec.delay_ms,
              Max(1, states[s].spec.duration_ms))

FrameValue(s) ==
    Ease(states[s].spec.easing,
         IF states[s].reverse THEN OneMinus(FrameLeg(s)) ELSE FrameLeg(s))

\* the callback cb of run s throws when it is invoked now
ThrowsNow(s, cb) == states[s].spec[cb].act = "Throw" /\ obs[s][cb] = 0

\* a frame on run s past its delay gate
OrderFrame(s) ==
    (DoTick /\ InFrame(s) /\ PastGate(s)) =>
        LET o == obs[s]
            o2 == obs'[s]
            upd == IsSet(World, s, "on_update")
            tck == IsSet(World, s, "tick") /\ ~(upd /\ ThrowsNow(s, "on_update"))
        IN  /\ fault' = "none"
            /\ IF upd THEN o2.on_update = Bump(o.on_update) /\ o2.update_val = FrameValue(s)
                      ELSE o2.on_update = o.on_update /\ o2.update_val = o.update_val
            /\ IF tck THEN o2.tick = Bump(o.tick) /\ o2.tick_val = FrameValue(s)
                      ELSE o2.tick = o.tick /\ o2.tick_val = o.tick_val
            /\ (upd /\ tck) => o2.update_val = o2.tick_val
            /\ o2.on_finish # o.on_finish =>
                    /\ FrameLeg(s) = One
                    /\ ~(upd /\ ThrowsNow(s, "on_update"))
                    /\ IsSet(World, s, "tick") =>
                           /\ tck /\ ~ThrowsNow(s, "tick") /\ states[s].spec.tick.ret
                           /\ o2.tick_val = FrameValue(s)
                    /\ o2.on_finish = Bump(o.on_finish)
            /\ (IsSet(World, s, "tick") /\ tck /\ ~states[s].spec.tick.ret) =>
                    o2.on_finish = o.on_finish
            /\ o2.on_cancel = o.on_cancel

\* a frame on run s before its delay gate, or while it is paused
GatedFrame(s) ==
    (DoTick /\ states[s].alloc = "live" /\ ~OwnerGone(World, s)
            /\ (states[s].paused \/ ~PastGate(s))) =>
        /\ Seen(obs'[s]) = Seen(obs[s])
        /\ states'[s].alloc = "live"

\* C30: within each Step that passes the delay gate the callbacks fire in a
\* fixed order: on_update (when set) is invoked before tick, with the same
\* eased value; on_finish on a leg boundary is invoked only after both were
\* invoked for that final frame; on_finish is never invoked in a frame in
\* which tick returned false.  A Step before the gate invokes nothing.
C30_CallbackOrder ==
    /\ [][\A s \in StateIds : OrderFrame(s)]_vars
    /\ [][\A s \in StateIds : GatedFrame(s)]_vars

\* a yoyo run has finished: on_update and tick saw the value of its last
\* frame, the end of the reverse leg, and on_finish fired once
C30_Witness ==
    /\ states[1].alloc = "freed" /\ obs[1].rev_legs = 1 /\ obs[1].on_finish = 1
    /\ obs[1].on_update = MaxCount /\ obs[1].tick = MaxCount
    /\ obs[1].update_val = Ease("OutQuad", Zero) /\ obs[1].tick_val = obs[1].update_val
    /\ anims["a"].live = Null /\ anims["a"].progress_cache = One

-----------------------------------------------------------------------------
(* on_start: runs with the callbacks of TestCallbacks, with and without    *)
(* on_start, and a run whose on_start pauses it, played again and again.   *)

StartChains ==
    { << <<"duration_ms", 100>>, <<"on_start", Count>>, <<"on_finish", Count>>,
         <<"on_update", Count>> >>,
      << <<"duration_ms", 200>>, <<"on_start", Call("Pause", "a")>>, <<"tick", Count>>,
         <<"on_finish", Count>> >>,
      Observers \o << <<"on_update", Count>>, <<"duration_ms", 200>> >> }

NextStart ==
    \/ \E calls \in StartChains : Stage("a", calls)
    \/ PlayIdle("a")
    \/ DoReplay("a")
    \/ DoResume("a")
    \/ DoCancel("a")
    \/ DoTick
    \/ DoTimer
    \/ \E dt \in Dts : Advance(dt)

SpecStart == Init /\ [][NextStart]_vars

\* the spec that Play() or Replay() on handle h commits
Committing(h) == IF anims[h].staging # NoSpec THEN anims[h].staging ELSE anims[h].last_spec

\* Play() or Replay() starts a run of handle h
StartStep(h) ==
    ((PlayIdle(h) \/ DoReplay(h)) /\ Committing(h) # NoSpec) =>
        LET s == anims'[h].live
            spec == Committing(h)
        IN  /\ fault' = "none"
            /\ s # Null /\ states'[s].alloc = "live" /\ states'[s].spec = spec
            /\ anims'[h].progress_cache = Zero
            /\ obs'[s].on_start = IF spec.on_start.act = "unset" THEN 0 ELSE 1
            /\ obs'[s].on_update = 0 /\ obs'[s].tick = 0 /\ obs'[s].on_finish = 0
            /\ obs'[s].tick_val = NoValue /\ obs'[s].update_val = NoValue
            /\ InActive(active', s) /\ sched'.running
            /\ states'[s].paused = (spec.on_start.act = "Pause")

\* no other step fires on_start
StartOnlyInPlay ==
    (PlayIdle("a") \/ DoReplay("a")) \/ \A s \in StateIds : obs'[s].on_start = obs[s].on_start

\* C31: Play() resets the progress cache to 0.0 and fires on_start exactly
\* once, synchronously, before the state is registered with the scheduler
\* and so before any on_update or tick of that run; no frame fires on_start.
C31_OnStart ==
    /\ [][StartStep("a")]_vars
    /\ [][StartOnlyInPlay]_vars
    /\ [](\A s \in StateIds : obs[s].on_start <= 1)

\* a second run has just been played after the first ran to its end: its
\* on_start paused it before it was registered, so the timer runs all the same
C31_Witness ==
    /\ anims["a"].live = 1 /\ states[1].start_ms = clock /\ sched.manual_last_now > 0
    /\ clock >= ClockStart + 200
    /\ obs[1].on_start = 1 /\ obs[1].tick = 0 /\ obs[1].on_finish = 0
    /\ states[1].paused /\ sched.running /\ active = <<1>>
    /\ anims["a"].progress_cache = Zero

-----------------------------------------------------------------------------
(* Removal during a frame: the tick of a cancels, stops, resets or destroys *)
(* b, or cancels a itself, and the on_finish of a replays a.                *)

DeferChains ==
    { << <<"tick", Call("Cancel", "b")>>, <<"on_cancel", Count>>, <<"duration_ms", 200>> >>,
      << <<"tick", Call("Stop", "b")>>, <<"on_cancel", Count>>, <<"duration_ms", 200>> >>,
      << <<"tick", Call("Reset", "b")>>, <<"on_cancel", Count>>, <<"duration_ms", 200>> >>,
      << <<"tick", Call("Destroy", "b")>>, <<"on_cancel", Count>>, <<"duration_ms", 200>> >>,
      << <<"tick", Call("Cancel", "a")>>, <<"on_cancel", Count>>, <<"duration_ms", 200>> >>,
      << <<"tick", Count>>, <<"on_finish", Call("Replay", "a")>>, <<"duration_ms", 100>> >> }

NextDefer ==
    \/ \E calls \in DeferChains : anims["a"].last_spec = NoSpec /\ Stage("a", calls)
    \/ StageFirst("b")
    \/ \E h \in {"a", "b"} : PlayFirst(h)
    \/ DoCancel("b")
    \/ DoStop("b")
    \/ DoTick
    \/ \E dt \in Dts : Advance(dt)

SpecDefer == Init /\ [][NextDefer]_vars

\* the world at the end of the iteration of the frame that starts now, before
\* its sweep; ret holds the indices collected for removal
ScanEnd == FrameScan([World EXCEPT !.sched.sweeping = TRUE], clock, 1, <<>>)

\* the states at the indices collected for removal
Collected(W) == {W.active[W.ret[k]] : k \in 1..Len(W.ret)}

\* at the end of the iteration W no entry was erased and no state freed; a
\* state detached from its handle during the iteration is marked dying or
\* collected for removal
ScanDefers(W) ==
    /\ W.fault = "none" /\ ~W.exc /\ ~W.oob
    /\ Len(W.active) >= Len(active)
    /\ SubSeq(W.active, 1, Len(active)) = active
    /\ \A s \in StateIds : states[s].alloc = "live" => W.states[s].alloc = "live"
    /\ \A s \in StateIds :
           (states[s].alloc = "live" /\ states[s].anim # "-" /\ W.states[s].anim = "-") =>
               (W.states[s].dying \/ s \in Collected(W))

\* the sweep after the iteration W erases and frees the collected states and
\* no other
SweepAfter(W) ==
    \A s \in StateIds :
        W.states[s].alloc = "live" =>
            IF s \in Collected(W)
            THEN states'[s].alloc = "freed" /\ ~InActive(active', s)
            ELSE states'[s] = W.states[s] /\ (InActive(W.active, s) => InActive(active', s))

DeferredFrame == DoTick => (ScanDefers(ScanEnd) /\ SweepAfter(ScanEnd))

\* Cancel or Stop called between frames on the live handle h
RemovedNow(h) ==
    ((DoCancel(h) \/ DoStop(h)) /\ anims[h].live # Null) =>
        /\ fault' = "none"
        /\ states'[anims[h].live].alloc = "freed"
        /\ ~InActive(active', anims[h].live)
        /\ anims'[h].live = Null

\* C32: between the start and the end of RunFrame's iteration, Remove
\* (reached through Cancel, Stop, Reset, Replay or the destruction of a
\* handle inside a callback) only marks the state dying: no entry of the
\* active set is erased and no state freed; the erasures and frees of the
\* frame happen after the iteration; a state removed outside a frame is
\* erased and freed at once.
C32_DeferredRemoval ==
    /\ [][DeferredFrame]_vars
    /\ [][RemovedNow("b")]_vars

\* the tick of a, registered second, cancelled b in a frame: b is detached
\* and dying but still allocated and in the active set when the frame is over
C32_Witness ==
    /\ active = <<1, 2>> /\ states[1].dying /\ states[1].alloc = "live"
    /\ states[1].anim = "-" /\ anims["b"].live = Null /\ anims["b"].exists
    /\ obs[1].on_cancel = 1 /\ obs[2].tick = 1 /\ anims["a"].live = 2

-----------------------------------------------------------------------------
(* The timer: two runs driven by the TimeCallback alone, with Pause,       *)
(* Resume, Cancel, Finalize and SetFPS called between frames, and with a   *)
(* tick that pauses, resumes or calls SetFPS inside the frame.             *)

TimerChains ==
    { << <<"tick", Call("Pause", "a")>>, <<"on_finish", Count>>, <<"duration_ms", 200>> >>,
      << <<"tick", Call("Resume", "b")>>, <<"on_finish", Count>>, <<"duration_ms", 200>> >>,
      << <<"tick", Call("SetFPS", "a")>>, <<"on_finish", Count>>, <<"duration_ms", 200>> >> }

\* the TimeCallback carrying id comes due
TimerStep(id) ==
    /\ fault = "none" /\ id \in sched.ticker
    /\ Commit(TickTimer([World EXCEPT !.sched.ticker = @ \ {id}], id))

\* the first Play of a handle, as the program starts
PlayEarly(h) == clock = ClockStart /\ PlayFirst(h)

NextTimer ==
    \/ \E calls \in TimerChains : anims["a"].last_spec = NoSpec /\ Stage("a", calls)
    \/ StageFirst("b")
    \/ \E h \in {"a", "b"} : PlayEarly(h)
    \/ DoPause("b")
    \/ DoResume("a")
    \/ DoCancel("b")
    \/ DoFinalize
    \/ DoTimer
    \/ \E dt \in Dts : Advance(dt)

\* weak fairness of the clock and of the timer, ENABLED written as TimerDue
SpecTimer ==
    /\ Init /\ [][NextTimer]_vars
    /\ WF_vars(\E dt \in Dts : Advance(dt))
    /\ ([]<>~TimerDue \/ []<><<DoTimer>>_vars)

\* Play() registers a State
AddStep(h) == PlayEarly(h) /\ anims'[h].live # Null

\* Add starts the timer, from idle or not
AddStarts ==
    \A h \in {"a", "b"} :
        AddStep(h) =>
            /\ sched'.running /\ "valid" \in sched'.ticker
            /\ sched.running => sched'.ticker = sched.ticker

\* with nothing in the active set the timer is stopped
IdleStopped == active = <<>> => (~sched.running /\ "valid" \notin sched.ticker)

\* a timer tick that runs a frame re-arms itself when, and only when, a state
\* is left in the active set
Rearms ==
    (TimerStep("valid") /\ sched.running) =>
        IF active' = <<>> THEN ~sched'.running /\ sched'.ticker = {}
        ELSE sched'.ticker # {} /\ (sched'.running => "valid" \in sched'.ticker)

\* C33: the timer is edge-armed: Add on an idle scheduler starts it;
\* whenever the active set is empty, after Remove, after a frame's sweep or
\* after Finalize, the timer is not running; a timer tick re-arms itself
\* only when the active set is not empty after the frame.
C33_EdgeArmed ==
    /\ [][AddStarts]_vars
    /\ []IdleStopped
    /\ [][Rearms]_vars

\* the timer tick that ended the last run has come and gone: nothing is
\* queued, the scheduler is idle, and both runs were ticked
C33_Witness ==
    /\ active = <<>> /\ ~sched.running /\ sched.ticker = {}
    /\ states[1].alloc = "freed" /\ states[2].alloc = "freed"
    /\ obs[1].on_finish = 1 /\ obs[2].on_finish = 1
    /\ sched.manual_last_now = 0

\* a TimeCallback with a stale id comes due: it is taken off the queue and
\* runs nothing
StaleStep ==
    TimerStep("stale") =>
        /\ sched' = [sched EXCEPT !.ticker = @ \ {"stale"}]
        /\ UNCHANGED <<anims, states, active, obs, fault>>

\* a timer frame, whatever its callbacks did, leaves the timer armed
FrameArms == TimerStep("valid") => (fault' = "none" /\ Armed')

\* the tick of run s is due: s is registered, neither paused nor dying, and
\* its tick was not invoked yet
TickOwed(s) ==
    /\ states[s].alloc = "live" /\ InActive(active, s) /\ NeedsTick(World, s)
    /\ IsSet(World, s, "tick") /\ obs[s].tick = 0

\* the tick of run s was invoked, or the run was paused or removed
TickPaid(s) ==
    \/ obs[s].tick >= 1
    \/ ~(states[s].alloc = "live" /\ InActive(active, s) /\ NeedsTick(World, s))

\* C34: whenever, after a public operation or a timer tick, the active set
\* holds a state that is neither paused nor dying, the scheduler is running
\* and a queued timer callback carries the current timer_id, so that a
\* timer-driven frame eventually runs; a timer callback with a stale id never
\* runs a frame.  This holds also after Pause, Resume or SetFPS called from
\* inside a callback during a timer-driven frame.
C34_TimerLive ==
    /\ []((\E i \in 1..Len(active) : NeedsTick(World, active[i]))
             => (sched.running /\ "valid" \in sched.ticker))
    /\ [][StaleStep]_vars
    /\ [][FrameArms]_vars
    /\ \A s \in StateIds : TickOwed(s) ~> TickPaid(s)

\* the tick of a resumed the paused b inside a timer frame: both runs go on,
\* both were ticked, and the timer is running with a current callback queued
C34_Witness ==
    /\ anims["a"].live # Null /\ anims["b"].live # Null
    /\ states[anims["a"].live].spec.tick = Call("Resume", "b")
    /\ obs[anims["a"].live].tick >= 1 /\ obs[anims["b"].live].tick >= 1
    /\ ~states[anims["b"].live].paused /\ states[anims["b"].live].elapsed_ms > 0
    /\ sched.running /\ "valid" \in sched.ticker

-----------------------------------------------------------------------------
(* Pause and Resume, under Spec *)

\* Pause() on the running handle h
PauseRunning(h) ==
    (DoPause(h) /\ anims[h].live # Null /\ ~states[anims[h].live].paused) =>
        LET s == anims[h].live IN
        /\ fault' = "none"
        /\ states' = [states EXCEPT ![s].paused = TRUE,
                                    ![s].elapsed_ms = @ + (clock - states[s].start_ms)]
        /\ anims' = anims /\ active' = active
        /\ \A x \in StateIds : Seen(obs'[x]) = Seen(obs[x])

\* Resume() on the paused handle h
ResumePaused(h) ==
    (DoResume(h) /\ anims[h].live # Null /\ states[anims[h].live].paused) =>
        LET s == anims[h].live IN
        /\ fault' = "none"
        /\ states' = [states EXCEPT ![s].paused = FALSE, ![s].start_ms = clock]
        /\ anims' = anims /\ active' = active
        /\ \A x \in StateIds : Seen(obs'[x]) = Seen(obs[x])

\* Pause() with no run or a paused run, Resume() with no run or a running run
PauseResumeIdle(h) ==
    /\ (DoPause(h) /\ (anims[h].live = Null \/ states[anims[h].live].paused)) =>
           UNCHANGED vars
    /\ (DoResume(h) /\ (anims[h].live = Null \/ ~states[anims[h].live].paused)) =>
           UNCHANGED vars

\* C35: Pause() and Resume() leave the state's cycles, reverse flag and
\* committed spec unchanged and fire no callback; Pause() on a handle that is
\* not live or already paused, and Resume() on a handle that is not live or
\* not paused, change nothing at all: a second Pause() adds no time to
\* elapsed_ms.
C35_PauseResumeKeep ==
    /\ [][PauseRunning("a")]_vars
    /\ [][ResumePaused("a")]_vars
    /\ [][PauseResumeIdle("a")]_vars

\* a yoyo run paused on its reverse leg, some time after the Pause()
C35_Witness ==
    /\ anims["a"].live = 1 /\ states[1].paused /\ states[1].reverse
    /\ states[1].spec.yoyo /\ states[1].cycles = 1
    /\ states[1].elapsed_ms > 0 /\ clock > states[1].start_ms + states[1].elapsed_ms
    /\ obs[1].tick >= 1

-----------------------------------------------------------------------------
(* A start delay on runs of more than one leg *)

DelayChains ==
    { Observers \o << <<"delay_ms", 200>>, <<"loop_count", 2>>, <<"duration_ms", 100>> >>,
      Observers \o << <<"delay_ms", 200>>, <<"yoyo", TRUE>>, <<"duration_ms", 100>> >>,
      Observers \o << <<"delay_ms", 200>>, <<"loop_count", 0 - 1>>, <<"duration_ms", 100>> >> }

NextDelay ==
    \/ \E calls \in DelayChains : anims["a"].last_spec = NoSpec /\ Stage("a", calls)
    \/ PlayFirst("a")
    \/ DoTick
    \/ \E dt \in Dts : Advance(dt)

SpecDelay == Init /\ [][NextDelay]_vars

\* the number of legs of run s that ran to their end
LegsDone(s) == obs[s].fwd_legs + obs[s].rev_legs

\* a frame on run s, after a leg boundary and later than it
NextLegFrame(s) ==
    /\ DoTick
    /\ states[s].alloc = "live" /\ InActive(active, s)
    /\ ~states[s].paused /\ ~states[s].dying
    /\ states[s].spec.delay_ms > 0
    /\ LegsDone(s) >= 1 /\ clock > states[s].start_ms

\* C36: the start delay is waited only once, before the first leg: for a run
\* with Delay(d > 0) and more than one leg, after a leg boundary the next
\* frame at a later time invokes tick for the next leg without waiting
\* another d ms.
C36_DelayOnce ==
    [][\A s \in StateIds :
          (NextLegFrame(s) /\ obs[s].tick < MaxCount) => obs'[s].tick = obs[s].tick + 1]_vars

-----------------------------------------------------------------------------
(* Play() and Replay() on a handle whose run is live *)

NextMutual ==
    \/ StageFirst("a")
    \/ DoPlay("a")
    \/ DoReplay("a")
    \/ DoCancel("a")
    \/ DoStop("a")
    \/ DoTick
    \/ \E dt \in Dts : Advance(dt)

SpecMutual == Init /\ [][NextMutual]_vars

\* the State at entry i of the active set and its handle refer to each other
Mutual(i) ==
    LET s == active[i] IN
    (s # Null /\ states[s].anim # "-") => anims[states[s].anim].live = s

\* C37: the back-references of handle and LiveState are always mutual: if a
\* state in the active set has anim = a then a.live refers to that state, so
\* at most one scheduled state reports back to a given handle; this holds
\* also when Play() or Replay() is called on a handle that is already live.
C37_MutualRefs == [](\A i \in 1..Len(active) : Mutual(i))

-----------------------------------------------------------------------------
(* Runs whose on_start cancels or stops them *)

OwnedChains ==
    { Observers \o << <<"duration_ms", 200>> >>,
      Observers \o << <<"on_start", Call("Cancel", "a")>>, <<"duration_ms", 200>> >>,
      Observers \o << <<"on_start", Call("Stop", "a")>>, <<"duration_ms", 200>> >> }

NextOwned ==
    \/ \E calls \in OwnedChains : Stage("a", calls)
    \/ PlayRest("a")
    \/ DoCancel("a")
    \/ DoStop("a")
    \/ DoTick
    \/ \E dt \in Dts : Advance(dt)

SpecOwned == Init /\ [][NextOwned]_vars

\* every entry of the active set is an allocated State, and no two are the same
EntriesOwned ==
    /\ \A i \in 1..Len(active) : active[i] # Null /\ states[active[i]].alloc = "live"
    /\ \A i, j \in 1..Len(active) : active[i] = active[j] => i = j

\* every allocated State is in the active set
AllocatedRegistered ==
    \A s \in StateIds : states[s].alloc = "live" => InActive(active, s)

\* C38: every entry of the scheduler's active set is a distinct, allocated,
\* not yet freed LiveState (never null, never a duplicate), and every state
\* allocated by Play is in the active set from the end of Play until the
\* scheduler frees it; this holds also when Cancel() or Stop() is called
\* from inside the run's on_start callback.
C38_ActiveOwned == [](fault = "none" => (EntriesOwned /\ AllocatedRegistered))

-----------------------------------------------------------------------------
(* Runs ended from inside their own on_update or tick *)

AfterChains ==
    { << <<"tick", Call("Cancel", "a")>>, <<"on_cancel", Count>>, <<"on_finish", Count>>,
         <<"duration_ms", 200>> >>,
      << <<"on_update", Call("Cancel", "a")>>, <<"tick", Count>>, <<"on_cancel", Count>>,
         <<"on_finish", Count>>, <<"duration_ms", 200>> >>,
      << <<"on_update", Call("Stop", "a")>>, <<"tick", Count>>, <<"on_cancel", Count>>,
         <<"on_finish", Count>>, <<"duration_ms", 200>> >>,
      << <<"tick", Call("KillAllFor", "a")>>, <<"on_cancel", Count>>, <<"on_finish", Count>>,
         <<"duration_ms", 200>> >> }

NextAfter ==
    \/ \E calls \in AfterChains : Stage("a", calls)
    \/ PlayIdle("a")
    \/ DoCancel("a")
    \/ DoKillAllFor("c1")
    \/ DoTick
    \/ \E dt \in Dts : Advance(dt)

SpecAfter == Init /\ [][NextAfter]_vars

\* this frame steps run s past its delay gate, and the callback cb of s, not
\* invoked before, calls act
EndsInStep(s, cb, act) ==
    /\ DoTick /\ InFrame(s) /\ PastGate(s)
    /\ states[s].spec[cb].act = act /\ obs[s][cb] = 0

\* the rest of the Step in which the run was ended invokes nothing more
RestSilent(s) ==
    /\ EndsInStep(s, "on_update", "Cancel") =>
           /\ obs'[s].on_cancel = 1
           /\ obs'[s].tick = obs[s].tick /\ obs'[s].on_finish = obs[s].on_finish
    /\ EndsInStep(s, "on_update", "Stop") =>
           obs'[s].tick = Bump(obs[s].tick) /\ obs'[s].on_finish = 1
    /\ EndsInStep(s, "tick", "Cancel") =>
           obs'[s].on_cancel = 1 /\ obs'[s].on_finish = obs[s].on_finish
    /\ EndsInStep(s, "tick", "KillAllFor") =>
           obs'[s].on_cancel = 0 /\ obs'[s].on_finish = obs[s].on_finish

\* run s has been ended: freed, or detached and marked dying
Ended(s) ==
    \/ states[s].alloc = "freed"
    \/ states[s].alloc = "live" /\ states[s].anim = "-" /\ states[s].dying

\* no later step invokes a callback of an ended run
LaterSilent(s) ==
    (Ended(s) /\ states'[s].alloc # "live") => Seen(obs'[s]) = Seen(obs[s])

\* C39: once Cancel(), Stop() or KillAllFor() has returned for a run, none
\* of that run's callbacks (on_update, tick, on_finish, on_cancel) is invoked
\* again, neither by a later frame nor by the rest of the Step that was in
\* progress when the operation was called from inside the run's on_update or
\* tick.
C39_SilentAfterEnd ==
    /\ [][\A s \in StateIds : LaterSilent(s)]_vars
    /\ [][\A s \in StateIds : RestSilent(s)]_vars

-----------------------------------------------------------------------------
(* KillAllFor and the runs of another owner: a is owned by c1, z by c2 *)

NextOther ==
    \/ \E h \in {"a", "z"} : StageFirst(h)
    \/ \E h \in {"a", "z"} : PlayEarly(h)
    \/ DoPause("z")
    \/ \E c \in Ctrls : DoKillAllFor(c)
    \/ DestroyOwner("c2")
    \/ DoTick
    \/ \E dt \in Dts : Advance(dt)

SpecOther == Init /\ [][NextOther]_vars

\* run s is registered, and its owner is alive and is not c
OthersRun(s, c) ==
    /\ states[s].alloc = "live" /\ InActive(active, s)
    /\ states[s].owner # c /\ states[s].owner \in owners

\* KillAllFor(c) leaves the runs of the other owners as they are
KillSpares(c) ==
    DoKillAllFor(c) =>
        /\ fault' = "none" /\ active' = active
        /\ \A s \in StateIds :
               OthersRun(s, c) =>
                   /\ states'[s] = states[s]
                   /\ Seen(obs'[s]) = Seen(obs[s])
                   /\ states[s].anim # "-" =>
                          /\ anims'[states[s].anim] = anims[states[s].anim]
                          /\ Progress(WorldNext, states[s].anim)
                                 = Progress(World, states[s].anim)

\* C40: KillAllFor(c) changes nothing for runs whose owner is a different
\* control that is still alive: their states stay in the active set with
\* unchanged timing fields, paused flag, direction and cycles, their handles
\* stay live with unchanged progress cache, and none of their callbacks fires.
C40_KillSparesOthers == [][\A c \in Ctrls : KillSpares(c)]_vars

\* KillAllFor(c1) has killed the run of a and spared the paused run of z,
\* registered before it
C40_Witness ==
    /\ active = <<1, 2>> /\ states[1].owner = "c2" /\ states[2].owner = "c1"
    /\ states[2].dying /\ anims["a"].live = Null
    /\ ~states[1].dying /\ anims["z"].live = 1 /\ states[1].paused
    /\ states[1].elapsed_ms > 0 /\ obs[1].tick >= 1 /\ obs[1].on_cancel = 0
    /\ "c2" \in owners

====
